---- MODULE Spec2Model ----
(***************************************************************************)
(* Verification model of the n8n-auto-preview job engine (run_job.mjs, as  *)
(* listed in README.md) and of its bank wizard (scripts/bank_wizard.mjs).  *)
(*                                                                         *)
(* Engine runs are processes 1..NumRuns.  Each await of run() that touches *)
(* the file system is one action; the code between two awaits belongs to   *)
(* the action of the await that precedes it.                               *)
(***************************************************************************)
EXTENDS Integers, Sequences, FiniteSets, TLC

\* ------------------------------------------------------------------ bounds
\* Number of engine invocations (operating-system processes) considered.
NumRuns == 2

Procs == 1..NumRuns

\* A pid that belongs to a live process of another user: kill(pid, 0) fails
\* with EPERM.
ForeignPid == NumRuns + 1

\* The pid of a holder that terminated before the first run starts:
\* kill(pid, 0) fails with ESRCH.
DeadPid == NumRuns + 2

\* The batch size of one job: the literal 4 of chooseComposition.
BatchSize == 4

\* Largest imageCount and videoCount the planner is applied to on its own.
MaxCount == 7

\* Largest caption bank the rotation is applied to on its own.
MaxBank == 3

\* Largest hashtag list pickHashtags is applied to on its own.
MaxTags == 6

\* Longest raw hashtags.json array the normalizers are applied to on their own.
MaxRaw == 2

\* Instants the clock can show; one instant is one minute of wall time.
MaxTime == 1

\* Number of runs the scheduler starts, one after the other, from each stored
\* datum (at most NumRuns).
DataRuns == 1

\* How many edits, deletions and additions one wizard session makes.
MaxOps == 2

Times == 0..MaxTime

\* ---------------------------------------------------------------- strings
\* A string is a sequence of one-character strings.
IsSpace(c) == c = " "

RECURSIVE TrimStart(_)
TrimStart(s) ==
  IF s # <<>> /\ IsSpace(Head(s)) THEN TrimStart(Tail(s)) ELSE s

RECURSIVE TrimEnd(_)
TrimEnd(s) ==
  IF s # <<>> /\ IsSpace(s[Len(s)])
    THEN TrimEnd(SubSeq(s, 1, Len(s) - 1))
    ELSE s

\* String.prototype.trim
Trim(s) == TrimEnd(TrimStart(s))

\* tag.replace(/\s+/g, '')
RECURSIVE StripSpaces(_)
StripSpaces(s) ==
  IF s = <<>> THEN <<>>
  ELSE IF IsSpace(Head(s)) THEN StripSpaces(Tail(s))
  ELSE <<Head(s)>> \o StripSpaces(Tail(s))

\* String.prototype.toLowerCase, on the letters the model uses.
LowerChar(c) ==
  CASE c = "A" -> "a"
    [] c = "J" -> "j"
    [] c = "P" -> "p"
    [] c = "G" -> "g"
    [] c = "X" -> "x"
    [] OTHER -> c

ToLowerCase(s) == [i \in 1..Len(s) |-> LowerChar(s[i])]

\* Decimal digits of n >= 0: String(n).
DigitChar(d) == <<"0", "1", "2", "3", "4", "5", "6", "7", "8", "9">>[d + 1]

RECURSIVE Digits(_)
Digits(n) ==
  IF n < 10 THEN <<DigitChar(n)>> ELSE Digits(n \div 10) \o <<DigitChar(n % 10)>>

\* String(n).padStart(2, '0')
PadStart2(s) == IF Len(s) < 2 THEN <<"0">> \o s ELSE s

\* The elements of a sequence.
Range(s) == {s[i] : i \in 1..Len(s)}

\* seq with its i-th element removed: pool.splice(i, 1).
RemoveAt(s, i) == SubSeq(s, 1, i - 1) \o SubSeq(s, i + 1, Len(s))

\* A finite set of integers as an ascending sequence.
RECURSIVE SortedSeq(_)
SortedSeq(S) ==
  IF S = {} THEN <<>>
  ELSE LET m == CHOOSE x \in S : \A y \in S : x <= y
       IN <<m>> \o SortedSeq(S \ {m})

Min(a, b) == IF a <= b THEN a ELSE b

\* --------------------------------------------------------- pickRandomItems
\* Math.floor(Math.random() * n) is any index 0..n-1; the operators below
\* give the set of results the random source can produce.

\* The loop of pickRandomItems: count draws, each removed from the pool.
RECURSIVE DrawFromPool(_, _)
DrawFromPool(pool, count) ==
  IF count = 0 THEN {<<>>}
  ELSE UNION {{<<draw.picked>> \o rest : rest \in DrawFromPool(draw.pool, count - 1)}
              : draw \in {[picked |-> pool[i], pool |-> RemoveAt(pool, i)]
                            : i \in 1..Len(pool)}}


PickRandomItemsThrows(items, count) == count > 0 /\ count > Len(items)

\* pickRandomItems that draws from items without removing what it drew.
PickRandomItemsWithReplacement(items, count) ==
  IF count <= 0 THEN {<<>>}
  ELSE IF count > Len(items) THEN {}
  ELSE [1..count -> Range(items)]

PickRandomItems(items, count) ==
  IF count <= 0 THEN {<<>>}
  ELSE IF count > Len(items) THEN {}
  ELSE DrawFromPool(items, count)

\* -------------------------------------------------------- chooseComposition
\* A composition is <<[images, videos]>>; null is <<>>.
NoComposition == <<>>

Composition(i, v) == <<[images |-> i, videos |-> v]>>

\* possibleImageCounts of a loop that stops at candidate < 3.
PossibleImageCountsShortLoop(imageCount, videoCount) ==
  SortedSeq({candidate \in 1..2 :
               candidate <= imageCount /\ BatchSize - candidate <= videoCount})

\* possibleImageCounts of a loop that asks for one video more than it takes.
PossibleImageCountsStrict(imageCount, videoCount) ==
  SortedSeq({candidate \in 1..3 :
               candidate <= imageCount /\ BatchSize - candidate < videoCount})

\* possibleImageCounts, as the ascending array the for loop builds.
PossibleImageCounts(imageCount, videoCount) ==
  SortedSeq({candidate \in 1..3 :
               candidate <= imageCount /\ BatchSize - candidate <= videoCount})

\* chooseComposition without its two single-type branches.
ChooseCompositionMixOnly(imageCount, videoCount) ==
  LET possible == PossibleImageCounts(imageCount, videoCount) IN
  IF imageCount + videoCount < BatchSize THEN {NoComposition}
  ELSE IF imageCount > 0 /\ videoCount > 0 /\ Len(possible) > 0
    THEN {Composition(possible[j], BatchSize - possible[j]) : j \in 1..Len(possible)}
  ELSE {NoComposition}

\* Every value chooseComposition(imageCount, videoCount) can return.
ChooseComposition(imageCount, videoCount) ==
  LET possible == PossibleImageCounts(imageCount, videoCount) IN
  IF imageCount + videoCount < BatchSize THEN {NoComposition}
  ELSE IF imageCount > 0 /\ videoCount > 0 /\ Len(possible) > 0
    THEN {Composition(possible[j], BatchSize - possible[j]) : j \in 1..Len(possible)}
  ELSE IF imageCount >= BatchSize THEN {Composition(BatchSize, 0)}
  ELSE IF videoCount >= BatchSize THEN {Composition(0, BatchSize)}
  ELSE {NoComposition}

\* ------------------------------------------------------------ caption bank
\* A JSON value read from captions.json or hashtags.json:
\*   kind "array"    an array, items its elements
\*   kind "nonarray" valid JSON that is not an array
\*   kind "invalid"  the file is missing or is not JSON: readJsonFile throws
JsonArray(items) == [kind |-> "array", items |-> items]

JsonNonArray == [kind |-> "nonarray", items |-> <<>>]

JsonInvalid == [kind |-> "invalid", items |-> <<>>]

\* An element of captions.json.  type is "string" (a legacy plain string,
\* str), "object" or "other" (null, a number, a boolean).  Of an object,
\* text and caption are <<s>> when the field is a string and <<>> otherwise,
\* id is <<n>> or <<>> (null or missing), used is Boolean(entry.used) and
\* used_at is <<t>> or <<>> (null or missing).
CaptionString(s) ==
  [type |-> "string", str |-> s, text |-> <<>>, caption |-> <<>>,
   id |-> <<>>, used |-> FALSE, used_at |-> <<>>]

CaptionObject(text, caption, id, used, used_at) ==
  [type |-> "object", str |-> <<>>, text |-> text, caption |-> caption,
   id |-> id, used |-> used, used_at |-> used_at]

CaptionOther ==
  [type |-> "other", str |-> <<>>, text |-> <<>>, caption |-> <<>>,
   id |-> <<>>, used |-> FALSE, used_at |-> <<>>]

\* textCandidate of a structured entry.
TextCandidate(entry) ==
  IF entry.text # <<>> THEN entry.text[1]
  ELSE IF entry.caption # <<>> THEN entry.caption[1]
  ELSE <<>>

\* Whether the callback of raw.map throws for this entry.
CaptionEntryThrows(entry) ==
  /\ entry.type # "string"
  /\ \/ entry.type # "object"
     \/ Trim(TextCandidate(entry)) = <<>>

\* The callback of raw.map in normalizeCaptionEntries; index counts from 0.
NormalizeCaptionEntry(entry, index) ==
  IF entry.type = "string"
    THEN [id |-> index + 1, text |-> Trim(entry.str), used |-> FALSE, used_at |-> <<>>]
    ELSE [id |-> IF entry.id # <<>> THEN entry.id[1] ELSE index + 1,
          text |-> Trim(TextCandidate(entry)),
          used |-> entry.used,
          used_at |-> entry.used_at]

NormalizeCaptionEntriesThrows(raw) ==
  \/ raw.kind # "array"
  \/ \E i \in 1..Len(raw.items) : CaptionEntryThrows(raw.items[i])

\* normalizeCaptionEntries(raw), for a raw it does not throw on.
NormalizeCaptionEntries(raw) ==
  [i \in 1..Len(raw.items) |-> NormalizeCaptionEntry(raw.items[i], i - 1)]

\* availableIndexes without the filter on used.
UnusedIndexesUnfiltered(captions) == 1..Len(captions)

\* availableIndexes of pickCaption: the indexes of the unused entries.
UnusedIndexes(captions) == {i \in 1..Len(captions) : ~captions[i].used}

\* The reset of pickCaption that clears used and leaves used_at as it was.
ResetUsageKeepsUsedAt(captions) ==
  [i \in 1..Len(captions) |-> [captions[i] EXCEPT !.used = FALSE]]

ResetUsage(captions) ==
  [i \in 1..Len(captions) |-> [captions[i] EXCEPT !.used = FALSE, !.used_at = <<>>]]

\* pickCaption without its check for an empty list of available indexes.
PickCaptionNeverThrows(captions) == FALSE

PickCaptionThrows(captions) == Len(captions) = 0

\* Every {captionText, nextCaptions} pickCaption(captions) can return when
\* new Date() is t.
PickCaption(captions, t) ==
  LET state == IF UnusedIndexes(captions) = {} THEN ResetUsage(captions) ELSE captions
      availableIndexes == UnusedIndexes(state)
  IN {[captionText |-> state[selectedIndex].text,
       nextCaptions |-> [state EXCEPT ![selectedIndex].used = TRUE,
                                      ![selectedIndex].used_at = <<t>>]]
      : selectedIndex \in availableIndexes}

\* JSON.stringify of the normalized bank, read back by JSON.parse.
CaptionsToJson(captions) ==
  JsonArray([i \in 1..Len(captions) |->
    CaptionObject(<<captions[i].text>>, <<>>, <<captions[i].id>>,
                  captions[i].used, captions[i].used_at)])

\* ------------------------------------------------------------ hashtag bank
\* An element of hashtags.json: a string (str), an object whose tag, hashtag
\* and text are <<s>> when the field is a string, or anything else.
HashtagString(s) ==
  [type |-> "string", str |-> s, tag |-> <<>>, hashtag |-> <<>>, text |-> <<>>]

HashtagObject(tag, hashtag, text) ==
  [type |-> "object", str |-> <<>>, tag |-> tag, hashtag |-> hashtag, text |-> text]

HashtagOther ==
  [type |-> "other", str |-> <<>>, tag |-> <<>>, hashtag |-> <<>>, text |-> <<>>]

\* The first map of the engine's normalizeHashtags.
EngineHashtagCandidate(entry) ==
  IF entry.type = "string" THEN entry.str
  ELSE IF entry.type = "object" /\ entry.tag # <<>> THEN entry.tag[1]
  ELSE IF entry.type = "object" /\ entry.hashtag # <<>> THEN entry.hashtag[1]
  ELSE IF entry.type = "object" /\ entry.text # <<>> THEN entry.text[1]
  ELSE <<>>

\* The last map: tag.startsWith('#') ? tag : `#${tag.replace(/\s+/g, '')}`
EnginePrefixHashtag(tag) ==
  IF tag # <<>> /\ Head(tag) = "#" THEN tag ELSE <<"#">> \o StripSpaces(tag)

\* [...new Set(tags)]: the first occurrence of each value, in order.
RECURSIVE UniqueInOrder(_)
UniqueInOrder(tags) ==
  IF tags = <<>> THEN <<>>
  ELSE LET front == UniqueInOrder(SubSeq(tags, 1, Len(tags) - 1))
           last == tags[Len(tags)]
       IN IF last \in Range(front) THEN front ELSE Append(front, last)

EngineNormalizeHashtagsThrows(raw) == raw.kind # "array"

\* The engine's normalizeHashtags(raw), for an array.
EngineNormalizeHashtags(raw) ==
  LET trimmed == [i \in 1..Len(raw.items) |-> Trim(EngineHashtagCandidate(raw.items[i]))]
      kept == SelectSeq(trimmed, LAMBDA tag : tag # <<>>)
  IN UniqueInOrder([i \in 1..Len(kept) |-> EnginePrefixHashtag(kept[i])])

\* --------------------------------------------- bank_wizard.mjs: captions
\* Math.max
Max(a, b) == IF a >= b THEN a ELSE b

\* The for loop of the wizard's normalizeCaptions over the first n entries:
\* the entries pushed so far and fallbackId.
RECURSIVE WizardCaptionLoop(_, _)
WizardCaptionLoop(items, n) ==
  IF n = 0 THEN [normalized |-> <<>>, fallbackId |-> 1]
  ELSE LET before == WizardCaptionLoop(items, n - 1)
           entry == items[n]
       IN IF entry.type = "string"
            THEN IF Trim(entry.str) = <<>> THEN before
                 ELSE [normalized |-> Append(before.normalized,
                                             [id |-> before.fallbackId,
                                              text |-> Trim(entry.str),
                                              used |-> FALSE, used_at |-> <<>>]),
                       fallbackId |-> before.fallbackId + 1]
          ELSE IF entry.type # "object" \/ Trim(TextCandidate(entry)) = <<>>
            THEN before
          ELSE LET id == IF entry.id # <<>> /\ entry.id[1] > 0
                           THEN entry.id[1] ELSE before.fallbackId
               IN [normalized |-> Append(before.normalized,
                                         [id |-> id,
                                          text |-> Trim(TextCandidate(entry)),
                                          used |-> entry.used,
                                          used_at |-> entry.used_at]),
                   fallbackId |-> Max(before.fallbackId, id + 1)]

\* entry inserted behind the entries of `sorted` whose id is not larger.
InsertById(sorted, entry) ==
  LET k == Cardinality({i \in 1..Len(sorted) : sorted[i].id <= entry.id})
  IN SubSeq(sorted, 1, k) \o <<entry>> \o SubSeq(sorted, k + 1, Len(sorted))

\* Array.prototype.sort((a, b) => a.id - b.id), which is stable.
RECURSIVE SortById(_)
SortById(captions) ==
  IF captions = <<>> THEN <<>>
  ELSE InsertById(SortById(SubSeq(captions, 1, Len(captions) - 1)),
                  captions[Len(captions)])

\* reindexCaptions(captions)
ReindexCaptions(captions) ==
  [i \in 1..Len(captions) |-> [captions[i] EXCEPT !.id = i]]

\* The wizard's normalizeCaptions(raw): [] for what is not an array.
WizardNormalizeCaptions(raw) ==
  IF raw.kind # "array" THEN <<>>
  ELSE ReindexCaptions(SortById(WizardCaptionLoop(raw.items, Len(raw.items)).normalized))

\* --------------------------------------------- bank_wizard.mjs: hashtags
\* normalizeHashtag(rawTag) of the wizard: '' or the compacted tag with '#'.
WizardNormalizeHashtag(rawTag) ==
  LET trimmed == Trim(rawTag)
      compact == StripSpaces(trimmed)
  IN IF trimmed = <<>> \/ compact = <<>> THEN <<>>
     ELSE IF Head(compact) = "#" THEN compact
     ELSE <<"#">> \o compact

\* entry.tag ?? entry.hashtag ?? entry.text ?? ''
WizardHashtagCandidate(entry) ==
  IF entry.type = "string" THEN entry.str
  ELSE IF entry.type = "object" /\ entry.tag # <<>> THEN entry.tag[1]
  ELSE IF entry.type = "object" /\ entry.hashtag # <<>> THEN entry.hashtag[1]
  ELSE IF entry.type = "object" /\ entry.text # <<>> THEN entry.text[1]
  ELSE <<>>

\* The for loop of the wizard's normalizeHashtags over the first n entries:
\* a tag is pushed unless it is '' or its lower-cased key was seen.
RECURSIVE WizardHashtagLoop(_, _)
WizardHashtagLoop(items, n) ==
  IF n = 0 THEN <<>>
  ELSE LET result == WizardHashtagLoop(items, n - 1)
           normalized == WizardNormalizeHashtag(WizardHashtagCandidate(items[n]))
           seen == {ToLowerCase(result[i]) : i \in 1..Len(result)}
       IN IF normalized = <<>> \/ ToLowerCase(normalized) \in seen
            THEN result
            ELSE Append(result, normalized)

\* The wizard's normalizeHashtags(raw): [] for what is not an array.
WizardNormalizeHashtags(raw) ==
  IF raw.kind # "array" THEN <<>> ELSE WizardHashtagLoop(raw.items, Len(raw.items))

\* pickHashtags with pickCount fixed at minPick.
PickHashtagsMinOnly(hashtags) ==
  IF Len(hashtags) = 0 THEN {<<>>}
  ELSE PickRandomItems(hashtags, Min(3, Min(5, Len(hashtags))))

\* Every value pickHashtags(hashtags) can return.
PickHashtags(hashtags) ==
  IF Len(hashtags) = 0 THEN {<<>>}
  ELSE LET maxPick == Min(5, Len(hashtags))
           minPick == Min(3, maxPick)
       IN UNION {PickRandomItems(hashtags, pickCount) : pickCount \in minPick..maxPick}

\* selectedHashtags.join(' ')
RECURSIVE JoinSpace(_)
JoinSpace(tags) ==
  IF tags = <<>> THEN <<>>
  ELSE IF Len(tags) = 1 THEN tags[1]
  ELSE tags[1] \o <<" ">> \o JoinSpace(Tail(tags))

\* ------------------------------------------------------------ media files
\* The files that can exist under source_media, numbered in the order of
\* their paths: root, subdirectory and base name.
MediaTable ==
  <<[root |-> "images", dir |-> "", base |-> <<"a", ".", "j", "p", "g">>],
    [root |-> "images", dir |-> "", base |-> <<"b", ".", "J", "P", "G">>],
    [root |-> "images", dir |-> "", base |-> <<"n", ".", "t", "x", "t">>],
    [root |-> "images", dir |-> "sub", base |-> <<"a", ".", "j", "p", "g">>],
    [root |-> "videos", dir |-> "", base |-> <<"c", ".", "m", "p", "4">>],
    [root |-> "videos", dir |-> "", base |-> <<"d", ".", "m", "o", "v">>],
    [root |-> "videos", dir |-> "", base |-> <<"e", ".", "m", "p", "4">>],
    [root |-> "videos", dir |-> "sub", base |-> <<"c", ".", "m", "p", "4">>]>>

MediaIds == 1..Len(MediaTable)

IMAGE_EXTENSIONS ==
  {<<".", "j", "p", "g">>, <<".", "j", "p", "e", "g">>,
   <<".", "p", "n", "g">>, <<".", "w", "e", "b", "p">>}

VIDEO_EXTENSIONS == {<<".", "m", "p", "4">>, <<".", "m", "o", "v">>}

\* Index of the last "." of a base name, 0 when there is none.
LastDot(base) ==
  LET dots == {i \in 1..Len(base) : base[i] = "."}
  IN IF dots = {} THEN 0 ELSE CHOOSE i \in dots : \A j \in dots : j <= i

\* path.extname(base): from the last dot, unless the name starts with it.
ExtName(base) ==
  IF LastDot(base) <= 1 THEN <<>> ELSE SubSeq(base, LastDot(base), Len(base))

\* path.parse(base).name
ParsedName(base) == SubSeq(base, 1, Len(base) - Len(ExtName(base)))

\* collectFilesRecursive(root, extensionSet) over the tree `tree`: the files
\* of the root whose lower-cased extension is allowed, sorted by path.
CollectFilesRecursive(tree, root, extensionSet) ==
  SortedSeq({f \in tree : /\ MediaTable[f].root = root
                          /\ ToLowerCase(ExtName(MediaTable[f].base)) \in extensionSet})

\* --------------------------------------------------------- job directories
\* formatWibJobFolderName(now): the folder name of the minute `t`.
FormatWibJobFolderName(t) == <<"job", t, "WIB">>

\* The suffix uniqueDirectoryPath appends at attempt n.
DirSuffix(attempt) ==
  IF attempt = 0 THEN <<>> ELSE <<"_">> \o PadStart2(Digits(attempt))

DirCandidate(desiredName, attempt) ==
  [name |-> desiredName, suffix |-> DirSuffix(attempt)]

\* candidateName of uniqueFilePath at attempt n.
FileCandidate(baseName, attempt) ==
  ParsedName(baseName)
    \o (IF attempt = 0 THEN <<>> ELSE <<"_">> \o Digits(attempt))
    \o ExtName(baseName)

\* captionFileContent, as its two newline-terminated lines.
CaptionFileContent(captionText, selectedHashtags) ==
  <<captionText, JoinSpace(selectedHashtags)>>

\* ------------------------------------------------------------ lock record
\* The lock file is <<>> when absent, else <<[ino, kind, pid]>>.  ino names
\* the process whose exclusive create made the file (0: a file that predates
\* every run): a write through a file handle reaches the file only while
\* that same file is still linked at the lock path.
\*   kind "pid"        first line holds the decimal pid `pid`
\*   kind "empty"      created, payload not written yet
\*   kind "junk"       first line is not a number
\*   kind "unreadable" readFile throws
NoLock == <<>>

LockRec(ino, kind, pid) == <<[ino |-> ino, kind |-> kind, pid |-> pid]>>

\* Number(firstLine) of the record: <<n>>, or <<>> for NaN.  Number("") is 0.
ParsePid(rec) ==
  CASE rec.kind = "pid" -> <<rec.pid>>
    [] rec.kind = "empty" -> <<0>>
    [] OTHER -> <<>>

\* ---------------------------------------------------------- initial data
Hi == <<"H", "i">>

Yo == <<"Y", "o">>

Blank == <<" ", " ">>

TagX == <<"#", "x">>

TagY == <<"#", "y">>

TagZ == <<"#", "z">>

\* Two fresh structured captions, as bootstrap.sh writes them.
DefaultCaptions ==
  JsonArray(<<CaptionObject(<<Hi>>, <<>>, <<1>>, FALSE, <<>>),
              CaptionObject(<<Yo>>, <<>>, <<2>>, FALSE, <<>>)>>)

DefaultHashtags == JsonArray(<<HashtagString(TagX)>>)

\* images a.jpg and sub/a.jpg, videos c.mp4 and d.mov.
DefaultMedia == {1, 4, 5, 6}

CaptionFiles ==
  {DefaultCaptions,
   \* a legacy string and a used structured entry without id
   JsonArray(<<CaptionString(<<" ">> \o Hi),
               CaptionObject(<<>>, <<Yo>>, <<>>, TRUE, <<0>>)>>),
   \* a blank legacy string
   JsonArray(<<CaptionString(Blank), CaptionObject(<<Hi>>, <<>>, <<2>>, FALSE, <<>>)>>),
   \* a structured entry with blank text
   JsonArray(<<CaptionObject(<<Hi>>, <<>>, <<1>>, FALSE, <<>>),
               CaptionObject(<<Blank>>, <<>>, <<2>>, FALSE, <<>>)>>),
   \* two structured entries with the same id, which is not 1 or 2
   JsonArray(<<CaptionObject(<<Hi>>, <<>>, <<5>>, FALSE, <<>>),
               CaptionObject(<<Yo>>, <<>>, <<5>>, FALSE, <<>>)>>),
   \* an entry that is neither a string nor an object
   JsonArray(<<CaptionOther>>),
   JsonArray(<<>>),
   JsonNonArray,
   JsonInvalid}

HashtagFiles ==
  {DefaultHashtags,
   JsonArray(<<HashtagString(TagX), HashtagObject(<<>>, <<TagY>>, <<>>), HashtagString(TagZ)>>),
   JsonArray(<<HashtagOther>>),
   JsonArray(<<>>),
   JsonNonArray,
   JsonInvalid}

\* one image and one video: fewer than a batch
SmallMedia == {1, 5}

MediaTrees ==
  {DefaultMedia,
   SmallMedia,
   {1, 2, 3, 5},        \* n.txt does not count
   {1, 2, 5, 6, 7},     \* two images, three videos
   {5, 6, 7, 8},        \* videos only, two of them named c.mp4
   {1, 2, 4, 3}}        \* three images and n.txt

\* What the runs start from: the lock file, the scheduler (whether it starts
\* a run while another one runs, and how many runs it starts), the devices
\* and the stored data.  NumRuns runs start from every lock file and a stock
\* below one batch, overlapping or not; DataRuns runs that do not overlap
\* start from every stored datum, one datum varied at a time.
Scenario(lock, ov, runs, xd, media, captions, hashtags) ==
  [lock |-> lock, overlap |-> ov, runs |-> runs, xdev |-> xd, media |-> media,
   captions |-> captions, hashtags |-> hashtags, jobs |-> << >>]

\* output_jobs already holding the folder of minute 0, left by an earlier job.
ExistingJobs ==
  DirCandidate(FormatWibJobFolderName(0), 0) :> [files |-> {}, caption |-> <<>>]

InitLocks ==
  {NoLock,
   LockRec(0, "pid", DeadPid),
   LockRec(0, "pid", ForeignPid),
   LockRec(0, "empty", 0),
   LockRec(0, "junk", 0),
   LockRec(0, "unreadable", 0)}

Scenarios ==
  {Scenario(l, ov, NumRuns, FALSE, SmallMedia, DefaultCaptions, DefaultHashtags)
     : l \in InitLocks, ov \in BOOLEAN}
  \cup {Scenario(l, FALSE, DataRuns, xd, DefaultMedia, DefaultCaptions, DefaultHashtags)
     : l \in InitLocks, xd \in BOOLEAN}
  \cup {Scenario(NoLock, FALSE, DataRuns, FALSE, m, DefaultCaptions, DefaultHashtags)
     : m \in MediaTrees}
  \cup {Scenario(NoLock, FALSE, DataRuns, FALSE, DefaultMedia, c, DefaultHashtags)
     : c \in CaptionFiles}
  \cup {Scenario(NoLock, FALSE, DataRuns, FALSE, DefaultMedia, DefaultCaptions, h)
     : h \in HashtagFiles}
  \cup {[Scenario(NoLock, FALSE, DataRuns, FALSE, DefaultMedia, DefaultCaptions,
                  DefaultHashtags) EXCEPT !.jobs = ExistingJobs]}

VARIABLES
  lockFile,      \* data/.run.lock
  overlap,       \* whether the scheduler may start a run while another runs
  runs,          \* how many runs the scheduler starts
  xdev,          \* whether source_media and output_jobs are on two devices
  now,           \* the clock
  src,           \* the files under source_media
  jobs,          \* output_jobs: directory name -> its files and caption.txt
  captionsFile,  \* data/captions.json
  hashtagsFile,  \* data/hashtags.json
  pc,            \* pc[p]: the await process p is at
  loc,           \* loc[p]: the local variables of run() and acquireLock()
  outcome,       \* outcome[p]: how run() of p ended
  call           \* the function a single-function specification applies

vars ==
  <<lockFile, overlap, runs, xdev, now, src, jobs, captionsFile, hashtagsFile,
    pc, loc, outcome, call>>

shared == <<lockFile, src, jobs, captionsFile, hashtagsFile>>

env == <<overlap, runs, xdev, now, call>>

\* pc values of a process that does not run.
Terminal == {"idle", "done", "crashed"}

Running(p) == pc[p] \notin Terminal

\* pc values of acquireLock().
AcquirePcs == {"acquire", "write", "read", "probe", "rm", "retry"}

\* pc values between a successful acquireLock() and the end of releaseLock().
LockedPcs ==
  {"scan", "readcaptions", "readhashtags", "mkdir", "access", "rename", "copy",
   "unlink", "writecaption", "writebank", "release"}

InLocked(p) == pc[p] \in LockedPcs

\* process.kill(pid, 0): "ok", "ESRCH" or "EPERM".
Kill0(pid) ==
  IF pid \in Procs
    THEN (IF Running(pid) THEN "ok" ELSE "ESRCH")
    ELSE (IF pid = ForeignPid THEN "EPERM" ELSE "ESRCH")

\* isProcessAlive with EPERM taken for "not alive".
IsProcessAliveEpermDead(parsed) ==
  /\ parsed # <<>>
  /\ parsed[1] > 0
  /\ Kill0(parsed[1]) = "ok"

\* isProcessAlive with ESRCH taken for "alive".
IsProcessAliveEsrchAlive(parsed) ==
  /\ parsed # <<>>
  /\ parsed[1] > 0

\* isProcessAlive(pid), pid being the result of Number(): <<n>> or <<>> (NaN).
IsProcessAlive(parsed) ==
  IF parsed = <<>> \/ parsed[1] <= 0
    THEN FALSE
    ELSE LET r == Kill0(parsed[1]) IN
         CASE r = "ok" -> TRUE
           [] r = "ESRCH" -> FALSE
           [] r = "EPERM" -> TRUE

\* The locals of run() and acquireLock() before the run starts.  opens counts
\* the fs.open calls of acquireLock; sawRecord tells that readFile returned;
\* lockOps counts the calls that created, wrote or removed the lock file;
\* mkdirs, fileOps, moved, captionWrites and bankWrites count the job
\* directories created, the rename, copyFile and unlink calls that succeeded,
\* the files whose move completed, and the writes of caption.txt and of
\* captions.json.  lines holds what the process has printed and exitCode is
\* process.exitCode (0 while it is not set).
InitLoc ==
  [opens |-> 0, sawRecord |-> FALSE, activePid |-> <<>>,
   composition |-> NoComposition, selectedMedia |-> <<>>,
   captionsRaw |-> <<>>, hashtagsRaw |-> <<>>,
   captionText |-> <<>>, nextCaptions |-> <<>>, selectedHashtags |-> <<>>,
   jobFolderName |-> <<>>, dirAttempt |-> 0, jobDir |-> <<>>,
   idx |-> 0, fileAttempt |-> 0, destinationPath |-> <<>>,
   result |-> "pending",
   lockOps |-> 0, mkdirs |-> 0, fileOps |-> 0, moved |-> 0,
   captionWrites |-> 0, bankWrites |-> 0,
   lines |-> <<>>, exitCode |-> 0]

\* The process has ended: its memory is gone.  What remains of loc[p] is the
\* record of what acquireLock() saw and of what the run did.
AtExit(l) ==
  [InitLoc EXCEPT !.opens = l.opens, !.sawRecord = l.sawRecord,
                  !.activePid = l.activePid, !.result = l.result,
                  !.lockOps = l.lockOps,
                  !.mkdirs = l.mkdirs, !.fileOps = l.fileOps, !.moved = l.moved,
                  !.captionWrites = l.captionWrites, !.bankWrites = l.bankWrites,
                  !.lines = l.lines, !.exitCode = l.exitCode]

\* log(message): one timestamped line on standard output.
Log(l, message) ==
  [l EXCEPT !.lines = Append(@, [stream |-> "stdout", text |-> message])]

\* The catch handler of run() that prints the error and leaves exitCode unset.
CatchWithoutExitCode(l) ==
  [l EXCEPT !.lines = Append(@, [stream |-> "stderr", text |-> "error"])]

\* run().catch: console.error(error) and process.exitCode = 1.
Catch(l) ==
  [l EXCEPT !.lines = Append(@, [stream |-> "stderr", text |-> "error"]),
            !.exitCode = 1]

NoCall == [fn |-> "none", arg |-> <<>>, res |-> <<>>, hist |-> <<>>]

Init ==
  /\ \E sc \in Scenarios :
       /\ lockFile = sc.lock
       /\ overlap = sc.overlap
       /\ runs = sc.runs
       /\ xdev = sc.xdev
       /\ src = sc.media
       /\ captionsFile = sc.captions
       /\ hashtagsFile = sc.hashtags
       /\ jobs = sc.jobs
  /\ now = 0
  /\ pc = [p \in Procs |-> "idle"]
  /\ loc = [p \in Procs |-> InitLoc]
  /\ outcome = [p \in Procs |-> "none"]
  /\ call = NoCall

\* ------------------------------------------------------------- scheduling
\* The scheduler starts run p.  With overlap = FALSE it waits for the
\* previous run's process to end first.
Start(p) ==
  /\ call.fn = "none"
  /\ pc[p] = "idle"
  /\ p <= runs
  /\ overlap \/ \A q \in Procs : ~Running(q)
  /\ pc' = [pc EXCEPT ![p] = "acquire"]
  /\ UNCHANGED <<shared, env, loc, outcome>>

\* The process of run p is killed: nothing of run() executes any more.
Crash(p) ==
  /\ Running(p)
  /\ pc' = [pc EXCEPT ![p] = "crashed"]
  /\ outcome' = [outcome EXCEPT ![p] = "killed"]
  /\ loc' = [loc EXCEPT ![p] = AtExit(@)]
  /\ UNCHANGED <<shared, env>>

\* A minute passes.
Tick ==
  /\ call.fn = "none"
  /\ now < MaxTime
  /\ now' = now + 1
  /\ UNCHANGED <<shared, overlap, runs, xdev, call, pc, loc, outcome>>

\* ------------------------------------------------------------ acquireLock
\* fs.open(lockFilePath, 'wx'): the first, exclusive create.
AcqOpen(p) ==
  /\ pc[p] = "acquire"
  /\ IF lockFile = NoLock
       THEN /\ lockFile' = LockRec(p, "empty", 0)
            /\ loc' = [loc EXCEPT ![p].opens = 1, ![p].lockOps = @ + 1]
            /\ pc' = [pc EXCEPT ![p] = "write"]
       ELSE /\ pc' = [pc EXCEPT ![p] = "read"]
            /\ loc' = [loc EXCEPT ![p].opens = 1]
            /\ UNCHANGED lockFile
  /\ UNCHANGED <<src, jobs, captionsFile, hashtagsFile, env, outcome>>

\* lockHandle.writeFile(payload); close; return true.
AcqWrite(p) ==
  /\ pc[p] = "write"
  /\ lockFile' = IF lockFile # NoLock /\ lockFile[1].ino = p
                   THEN LockRec(p, "pid", p)
                   ELSE lockFile
  /\ loc' = [loc EXCEPT ![p].lockOps = @ + 1]
  /\ pc' = [pc EXCEPT ![p] = "scan"]
  /\ UNCHANGED <<src, jobs, captionsFile, hashtagsFile, env, outcome>>

\* fs.readFile(lockFilePath) and Number(firstLine); a failed read is caught.
AcqRead(p) ==
  /\ pc[p] = "read"
  /\ IF lockFile = NoLock \/ lockFile[1].kind = "unreadable"
       THEN /\ pc' = [pc EXCEPT ![p] = "rm"]
            /\ UNCHANGED loc
       ELSE /\ pc' = [pc EXCEPT ![p] = "probe"]
            /\ loc' = [loc EXCEPT ![p].activePid = ParsePid(lockFile[1]),
                                  ![p].sawRecord = TRUE]
  /\ UNCHANGED <<shared, env, outcome>>

\* isProcessAlive(activePid): alive returns false from acquireLock, and run()
\* logs the skip and returns.
AcqProbe(p) ==
  /\ pc[p] = "probe"
  /\ IF IsProcessAlive(loc[p].activePid)
       THEN /\ pc' = [pc EXCEPT ![p] = "done"]
            /\ outcome' = [outcome EXCEPT ![p] = "skip_locked"]
            /\ loc' = [loc EXCEPT ![p] =
                 AtExit(Log(@, "Run skipped: previous execution is still active."))]
       ELSE /\ pc' = [pc EXCEPT ![p] = "rm"]
            /\ UNCHANGED <<outcome, loc>>
  /\ UNCHANGED <<shared, env>>

\* fs.rm(lockFilePath, {force: true}) of the record taken for stale.
AcqRm(p) ==
  /\ pc[p] = "rm"
  /\ lockFile' = NoLock
  /\ loc' = [loc EXCEPT ![p].lockOps = @ + 1]
  /\ pc' = [pc EXCEPT ![p] = "retry"]
  /\ UNCHANGED <<src, jobs, captionsFile, hashtagsFile, env, outcome>>

\* The second fs.open(lockFilePath, 'wx'), outside any try: EEXIST propagates
\* out of acquireLock() and of run(), which has not entered its try yet, to
\* run().catch.
AcqRetry(p) ==
  /\ pc[p] = "retry"
  /\ IF lockFile = NoLock
       THEN /\ lockFile' = LockRec(p, "empty", 0)
            /\ pc' = [pc EXCEPT ![p] = "write"]
            /\ loc' = [loc EXCEPT ![p].opens = 2, ![p].lockOps = @ + 1]
            /\ UNCHANGED outcome
       ELSE /\ pc' = [pc EXCEPT ![p] = "done"]
            /\ outcome' = [outcome EXCEPT ![p] = "acquire_threw"]
            /\ loc' = [loc EXCEPT ![p] = AtExit(Catch([@ EXCEPT !.opens = 2]))]
            /\ UNCHANGED lockFile
  /\ UNCHANGED <<src, jobs, captionsFile, hashtagsFile, env>>

\* --------------------------------------------------------------------- run
\* An exception that a catch block of run() logs as a skip.
ThrownLoggedAsSkip(l) == [l EXCEPT !.result = "skip_media"]

\* An exception inside run()'s try: the finally block runs next.
Thrown(l) == [l EXCEPT !.result = "error"]

\* Promise.all of the two scans, chooseComposition and the two
\* pickRandomItems calls.
Scan(p) ==
  /\ pc[p] = "scan"
  /\ \E images \in {CollectFilesRecursive(src, "images", IMAGE_EXTENSIONS)},
        videos \in {CollectFilesRecursive(src, "videos", VIDEO_EXTENSIONS)} :
       \E composition \in ChooseComposition(Len(images), Len(videos)) :
          IF composition = NoComposition
            THEN /\ loc' = [loc EXCEPT ![p] =
                      Log([@ EXCEPT !.result = "skip_media"],
                          "Run skipped: not enough source media.")]
                 /\ pc' = [pc EXCEPT ![p] = "release"]
            ELSE IF \/ PickRandomItemsThrows(images, composition[1].images)
                    \/ PickRandomItemsThrows(videos, composition[1].videos)
              THEN /\ loc' = [loc EXCEPT ![p] = Thrown(@)]
                   /\ pc' = [pc EXCEPT ![p] = "release"]
              ELSE \E selectedImages \in PickRandomItems(images, composition[1].images),
                      selectedVideos \in PickRandomItems(videos, composition[1].videos) :
                     /\ loc' = [loc EXCEPT ![p].composition = composition,
                                           ![p].selectedMedia = selectedImages \o selectedVideos]
                     /\ pc' = [pc EXCEPT ![p] = "readcaptions"]
  /\ UNCHANGED <<shared, env, outcome>>

\* readJsonFile(captionsPath), normalizeCaptionEntries and pickCaption.
ReadCaptions(p) ==
  /\ pc[p] = "readcaptions"
  /\ IF captionsFile.kind = "invalid"
       THEN /\ loc' = [loc EXCEPT ![p] = Thrown(@)]
            /\ pc' = [pc EXCEPT ![p] = "release"]
       ELSE IF NormalizeCaptionEntriesThrows(captionsFile)
         THEN /\ loc' = [loc EXCEPT ![p] = Thrown([@ EXCEPT !.captionsRaw = <<captionsFile>>])]
              /\ pc' = [pc EXCEPT ![p] = "release"]
         ELSE \E captions \in {NormalizeCaptionEntries(captionsFile)} :
           IF PickCaptionThrows(captions)
             THEN /\ loc' = [loc EXCEPT ![p] = Thrown([@ EXCEPT !.captionsRaw = <<captionsFile>>])]
                  /\ pc' = [pc EXCEPT ![p] = "release"]
             ELSE \E picked \in PickCaption(captions, now) :
                    /\ loc' = [loc EXCEPT ![p].captionsRaw = <<captionsFile>>,
                                          ![p].captionText = picked.captionText,
                                          ![p].nextCaptions = picked.nextCaptions]
                    /\ pc' = [pc EXCEPT ![p] = "readhashtags"]
  /\ UNCHANGED <<shared, env, outcome>>

\* ReadHashtags of a run() that stores the normalized hashtags back.
ReadHashtagsWritesBack(p) ==
  /\ pc[p] = "readhashtags"
  /\ IF hashtagsFile.kind = "invalid" \/ EngineNormalizeHashtagsThrows(hashtagsFile)
       THEN /\ loc' = [loc EXCEPT ![p] = Thrown(@)]
            /\ pc' = [pc EXCEPT ![p] = "release"]
            /\ UNCHANGED hashtagsFile
       ELSE \E hashtags \in {EngineNormalizeHashtags(hashtagsFile)} :
            \E selectedHashtags \in PickHashtags(hashtags) :
              /\ loc' = [loc EXCEPT ![p].hashtagsRaw = <<hashtagsFile>>,
                                    ![p].selectedHashtags = selectedHashtags,
                                    ![p].jobFolderName = FormatWibJobFolderName(now),
                                    ![p].dirAttempt = 0]
              /\ pc' = [pc EXCEPT ![p] = "mkdir"]
              /\ hashtagsFile' =
                   JsonArray([i \in 1..Len(hashtags) |-> HashtagString(hashtags[i])])
  /\ UNCHANGED <<lockFile, src, jobs, captionsFile, env, outcome>>

\* readJsonFile(hashtagsPath), normalizeHashtags, pickHashtags and
\* formatWibJobFolderName.
ReadHashtags(p) ==
  /\ pc[p] = "readhashtags"
  /\ IF hashtagsFile.kind = "invalid"
       THEN /\ loc' = [loc EXCEPT ![p] = Thrown(@)]
            /\ pc' = [pc EXCEPT ![p] = "release"]
       ELSE IF EngineNormalizeHashtagsThrows(hashtagsFile)
         THEN /\ loc' = [loc EXCEPT ![p] = Thrown([@ EXCEPT !.hashtagsRaw = <<hashtagsFile>>])]
              /\ pc' = [pc EXCEPT ![p] = "release"]
         ELSE \E hashtags \in {EngineNormalizeHashtags(hashtagsFile)} :
              \E selectedHashtags \in PickHashtags(hashtags) :
                /\ loc' = [loc EXCEPT ![p].hashtagsRaw = <<hashtagsFile>>,
                                      ![p].selectedHashtags = selectedHashtags,
                                      ![p].jobFolderName = FormatWibJobFolderName(now),
                                      ![p].dirAttempt = 0]
                /\ pc' = [pc EXCEPT ![p] = "mkdir"]
  /\ UNCHANGED <<shared, env, outcome>>

\* uniqueDirectoryPath calling fs.mkdir with {recursive: true}, which does not
\* fail on a directory that exists.
MkdirRecursive(p) ==
  /\ pc[p] = "mkdir"
  /\ \E candidate \in {DirCandidate(loc[p].jobFolderName, loc[p].dirAttempt)} :
        \E ok \in BOOLEAN :
          IF ~ok
            THEN /\ loc' = [loc EXCEPT ![p] = Thrown(@)]
                 /\ pc' = [pc EXCEPT ![p] = "release"]
                 /\ UNCHANGED jobs
            ELSE /\ jobs' = IF candidate \in DOMAIN jobs THEN jobs
                            ELSE (candidate :> [files |-> {}, caption |-> <<>>]) @@ jobs
                 /\ loc' = [loc EXCEPT ![p].jobDir = <<candidate>>,
                                       ![p].mkdirs = @ + 1,
                                       ![p].idx = 1,
                                       ![p].fileAttempt = 0]
                 /\ pc' = [pc EXCEPT ![p] = "access"]
  /\ UNCHANGED <<lockFile, src, captionsFile, hashtagsFile, env, outcome>>

\* One fs.mkdir of uniqueDirectoryPath: EEXIST tries the next suffix, any
\* other error propagates.  The for loop over selectedMedia starts after it.
Mkdir(p) ==
  /\ pc[p] = "mkdir"
  /\ \E candidate \in {DirCandidate(loc[p].jobFolderName, loc[p].dirAttempt)} :
        \E ok \in BOOLEAN :
          IF ~ok
            THEN /\ loc' = [loc EXCEPT ![p] = Thrown(@)]
                 /\ pc' = [pc EXCEPT ![p] = "release"]
                 /\ UNCHANGED jobs
            ELSE IF candidate \in DOMAIN jobs
              THEN /\ loc' = [loc EXCEPT ![p].dirAttempt = @ + 1]
                   /\ UNCHANGED <<pc, jobs>>
              ELSE /\ jobs' = (candidate :> [files |-> {}, caption |-> <<>>]) @@ jobs
                   /\ loc' = [loc EXCEPT ![p].jobDir = <<candidate>>,
                                         ![p].mkdirs = @ + 1,
                                         ![p].idx = 1,
                                         ![p].fileAttempt = 0]
                   /\ pc' = [pc EXCEPT ![p] = "access"]
  /\ UNCHANGED <<lockFile, src, captionsFile, hashtagsFile, env, outcome>>

\* The file names of a job directory.
NamesIn(dir) == {e.name : e \in jobs[dir].files}

\* The source file the for loop is at.
CurrentFile(p) == loc[p].selectedMedia[loc[p].idx]

\* uniqueFilePath that returns the base name without probing.
AccessWithoutProbe(p) ==
  /\ pc[p] = "access"
  /\ loc' = [loc EXCEPT ![p].destinationPath =
                FileCandidate(MediaTable[CurrentFile(p)].base, 0)]
  /\ pc' = [pc EXCEPT ![p] = "rename"]
  /\ UNCHANGED <<shared, env, outcome>>

\* One fs.access of uniqueFilePath: a name that exists tries the next suffix.
Access(p) ==
  /\ pc[p] = "access"
  /\ \E candidateName \in
          {FileCandidate(MediaTable[CurrentFile(p)].base, loc[p].fileAttempt)} :
        IF candidateName \in NamesIn(loc[p].jobDir[1])
          THEN /\ loc' = [loc EXCEPT ![p].fileAttempt = @ + 1]
               /\ UNCHANGED pc
          ELSE /\ loc' = [loc EXCEPT ![p].destinationPath = candidateName]
               /\ pc' = [pc EXCEPT ![p] = "rename"]
  /\ UNCHANGED <<shared, env, outcome>>

\* The locals and the pc after the move of the current file has completed.
AfterMove(p, l) ==
  /\ loc' = [loc EXCEPT ![p] =
       IF l.idx < Len(l.selectedMedia)
         THEN [l EXCEPT !.fileOps = @ + 1, !.moved = @ + 1, !.idx = @ + 1,
                        !.fileAttempt = 0]
         ELSE [l EXCEPT !.fileOps = @ + 1, !.moved = @ + 1]]
  /\ pc' = [pc EXCEPT ![p] =
       IF l.idx < Len(l.selectedMedia) THEN "access" ELSE "writecaption"]

\* The job directory with `file` stored under `name`, replacing what had
\* that name.
PutFile(dir, name, file) ==
  [jobs EXCEPT ![dir].files = {e \in @ : e.name # name} \cup {[name |-> name, file |-> file]}]

\* fs.rename(sourcePath, destinationPath) of moveFileSafe: a missing source
\* fails with ENOENT, two devices with EXDEV, which alone is caught.
Rename(p) ==
  /\ pc[p] = "rename"
  /\ \E ok \in BOOLEAN :
       IF ~ok \/ CurrentFile(p) \notin src
         THEN /\ loc' = [loc EXCEPT ![p] = Thrown(@)]
              /\ pc' = [pc EXCEPT ![p] = "release"]
              /\ UNCHANGED <<src, jobs>>
         ELSE IF xdev
           THEN /\ pc' = [pc EXCEPT ![p] = "copy"]
                /\ UNCHANGED <<loc, src, jobs>>
           ELSE /\ src' = src \ {CurrentFile(p)}
                /\ jobs' = PutFile(loc[p].jobDir[1], loc[p].destinationPath, CurrentFile(p))
                /\ AfterMove(p, loc[p])
  /\ UNCHANGED <<lockFile, captionsFile, hashtagsFile, env, outcome>>

\* fs.copyFile(sourcePath, destinationPath, COPYFILE_EXCL)
Copy(p) ==
  /\ pc[p] = "copy"
  /\ \E ok \in BOOLEAN :
       IF \/ ~ok
          \/ CurrentFile(p) \notin src
          \/ loc[p].destinationPath \in NamesIn(loc[p].jobDir[1])
         THEN /\ loc' = [loc EXCEPT ![p] = Thrown(@)]
              /\ pc' = [pc EXCEPT ![p] = "release"]
              /\ UNCHANGED jobs
         ELSE /\ jobs' = PutFile(loc[p].jobDir[1], loc[p].destinationPath, CurrentFile(p))
              /\ pc' = [pc EXCEPT ![p] = "unlink"]
              /\ loc' = [loc EXCEPT ![p].fileOps = @ + 1]
  /\ UNCHANGED <<lockFile, src, captionsFile, hashtagsFile, env, outcome>>

\* moveFileSafe whose cross-device fallback leaves the source file in place.
UnlinkKeepsSource(p) ==
  /\ pc[p] = "unlink"
  /\ \E ok \in BOOLEAN :
       IF ~ok \/ CurrentFile(p) \notin src
         THEN /\ loc' = [loc EXCEPT ![p] = Thrown(@)]
              /\ pc' = [pc EXCEPT ![p] = "release"]
              /\ UNCHANGED src
         ELSE /\ UNCHANGED src
              /\ AfterMove(p, loc[p])
  /\ UNCHANGED <<lockFile, jobs, captionsFile, hashtagsFile, env, outcome>>

\* fs.unlink(sourcePath)
Unlink(p) ==
  /\ pc[p] = "unlink"
  /\ \E ok \in BOOLEAN :
       IF ~ok \/ CurrentFile(p) \notin src
         THEN /\ loc' = [loc EXCEPT ![p] = Thrown(@)]
              /\ pc' = [pc EXCEPT ![p] = "release"]
              /\ UNCHANGED src
         ELSE /\ src' = src \ {CurrentFile(p)}
              /\ AfterMove(p, loc[p])
  /\ UNCHANGED <<lockFile, jobs, captionsFile, hashtagsFile, env, outcome>>

\* WriteCaptionFile with the error of fs.writeFile swallowed.
WriteCaptionFileSwallowsError(p) ==
  /\ pc[p] = "writecaption"
  /\ \E ok \in BOOLEAN :
       IF ~ok
         THEN UNCHANGED <<jobs, loc>>
         ELSE /\ jobs' = [jobs EXCEPT ![loc[p].jobDir[1]].caption =
                            <<CaptionFileContent(loc[p].captionText, loc[p].selectedHashtags)>>]
              /\ loc' = [loc EXCEPT ![p].captionWrites = @ + 1]
  /\ pc' = [pc EXCEPT ![p] = "writebank"]
  /\ UNCHANGED <<lockFile, src, captionsFile, hashtagsFile, env, outcome>>

\* fs.writeFile(path.join(jobDir, 'caption.txt'), captionFileContent)
WriteCaptionFile(p) ==
  /\ pc[p] = "writecaption"
  /\ \E ok \in BOOLEAN :
       IF ~ok
         THEN /\ loc' = [loc EXCEPT ![p] = Thrown(@)]
              /\ pc' = [pc EXCEPT ![p] = "release"]
              /\ UNCHANGED jobs
         ELSE /\ jobs' = [jobs EXCEPT ![loc[p].jobDir[1]].caption =
                            <<CaptionFileContent(loc[p].captionText, loc[p].selectedHashtags)>>]
              /\ loc' = [loc EXCEPT ![p].captionWrites = @ + 1]
              /\ pc' = [pc EXCEPT ![p] = "writebank"]
  /\ UNCHANGED <<lockFile, src, captionsFile, hashtagsFile, env, outcome>>

\* WriteBank in a run() without try/finally: a failed write ends the run.
WriteBankWithoutFinally(p) ==
  /\ pc[p] = "writebank"
  /\ \E ok \in BOOLEAN :
       IF ~ok
         THEN /\ captionsFile' \in {captionsFile, JsonInvalid}
              /\ loc' = [loc EXCEPT ![p] =
                   AtExit(Catch(Thrown([@ EXCEPT !.bankWrites = @ + 1])))]
              /\ pc' = [pc EXCEPT ![p] = "done"]
              /\ outcome' = [outcome EXCEPT ![p] = "error"]
         ELSE /\ captionsFile' = CaptionsToJson(loc[p].nextCaptions)
              /\ loc' = [loc EXCEPT ![p] =
                   Log([@ EXCEPT !.bankWrites = @ + 1, !.result = "success"],
                       "Run success")]
              /\ pc' = [pc EXCEPT ![p] = "release"]
              /\ UNCHANGED outcome
  /\ UNCHANGED <<lockFile, src, jobs, hashtagsFile, env>>

\* writeJsonFile(captionsPath, nextCaptions) and the success log line.  A
\* failed fs.writeFile leaves the file as it was or truncated.
WriteBank(p) ==
  /\ pc[p] = "writebank"
  /\ \E ok \in BOOLEAN :
       IF ~ok
         THEN /\ captionsFile' \in {captionsFile, JsonInvalid}
              /\ loc' = [loc EXCEPT ![p] = Thrown([@ EXCEPT !.bankWrites = @ + 1])]
         ELSE /\ captionsFile' = CaptionsToJson(loc[p].nextCaptions)
              /\ loc' = [loc EXCEPT ![p] =
                   Log([@ EXCEPT !.bankWrites = @ + 1, !.result = "success"],
                       "Run success")]
  /\ pc' = [pc EXCEPT ![p] = "release"]
  /\ UNCHANGED <<lockFile, src, jobs, hashtagsFile, env, outcome>>

\* releaseLock() in run()'s finally: fs.rm(lockFilePath, {force: true}); then
\* run() returns, or rethrows to run().catch.
Release(p) ==
  /\ pc[p] = "release"
  /\ lockFile' = NoLock
  /\ pc' = [pc EXCEPT ![p] = "done"]
  /\ outcome' = [outcome EXCEPT ![p] = loc[p].result]
  /\ loc' = [loc EXCEPT ![p] =
       AtExit(IF @.result = "error"
                THEN Catch([@ EXCEPT !.lockOps = @ + 1])
                ELSE [@ EXCEPT !.lockOps = @ + 1])]
  /\ UNCHANGED <<src, jobs, captionsFile, hashtagsFile, env>>

\* One step of run p.
Step(p) ==
  \/ AcqOpen(p)
  \/ AcqWrite(p)
  \/ AcqRead(p)
  \/ AcqProbe(p)
  \/ AcqRm(p)
  \/ AcqRetry(p)
  \/ Scan(p)
  \/ ReadCaptions(p)
  \/ ReadHashtags(p)
  \/ Mkdir(p)
  \/ Access(p)
  \/ Rename(p)
  \/ Copy(p)
  \/ Unlink(p)
  \/ WriteCaptionFile(p)
  \/ WriteBank(p)
  \/ Release(p)

Next ==
  \/ Tick
  \/ \E p \in Procs : Start(p) \/ Crash(p) \/ Step(p)

Spec == Init /\ [][Next]_vars

\* A process that runs keeps running: node returns from every await.  The
\* scheduler, the clock and kills are under no obligation.
FairSpec == Spec /\ \A p \in Procs : WF_vars(Step(p))

\* ---------------------------------------- bank_wizard.mjs: one session
\* The wizard session lives in call.arg while call.fn = "wizard".  wpc is the
\* question the session waits at; existingRaw, captions and hashtags are the
\* locals of handleCaptions and handleHashtags; typed is what the operator
\* may type as a caption or a hashtag; ops counts the edits, deletions and
\* additions made; captionWrites and hashtagWrites count the writeJson calls
\* on captions.json and hashtags.json, and exitCode is process.exitCode.
WizardSession(typed) ==
  [wpc |-> "mode", mode |-> 0, existingRaw |-> <<>>, captions |-> <<>>,
   hashtags |-> <<>>, typed |-> typed, ops |-> 0,
   captionWrites |-> 0, hashtagWrites |-> 0, exitCode |-> 0]

WizardCall(typed) ==
  [fn |-> "wizard", arg |-> WizardSession(typed), res |-> <<>>, hist |-> <<>>]

wiz == call.arg

\* What the wizard leaves alone: everything but the two banks.
wizardFrame == <<lockFile, overlap, runs, xdev, now, src, jobs, pc, loc, outcome>>

At(w) == call.fn = "wizard" /\ wiz.wpc = w

\* JSON.stringify of the wizard's hashtag list, read back by JSON.parse.
HashtagsToJson(hashtags) ==
  JsonArray([i \in 1..Len(hashtags) |-> HashtagString(hashtags[i])])

\* The catch handler of the wizard's run(): the message and exit code 1.
WizardFailed(session) == [session EXCEPT !.wpc = "failed", !.exitCode = 1]

\* Where run() goes after handleCaptions has returned.
AfterCaptions(session) ==
  [session EXCEPT !.wpc = IF session.mode = 3 THEN "readhashtags" ELSE "closed"]

\* askChoice(rl, 'Pilih [1-4]: ', ...) of run().
WizChooseMode ==
  /\ At("mode")
  /\ \E mode \in 1..4 :
       call' = [call EXCEPT !.arg.mode = mode,
                            !.arg.wpc = CASE mode \in {1, 3} -> "readcaptions"
                                          [] mode = 2 -> "readhashtags"
                                          [] OTHER -> "closed"]
  /\ UNCHANGED <<wizardFrame, captionsFile, hashtagsFile>>

\* readJson(captionsPath, []) and normalizeCaptions of handleCaptions; a file
\* that is not JSON makes JSON.parse throw.
WizReadCaptions ==
  /\ At("readcaptions")
  /\ call' = [call EXCEPT !.arg =
       IF captionsFile.kind = "invalid" THEN WizardFailed(@)
       ELSE [@ EXCEPT !.existingRaw = <<captionsFile>>,
                      !.captions = WizardNormalizeCaptions(captionsFile),
                      !.wpc = "c_replace"]]
  /\ UNCHANGED <<wizardFrame, captionsFile, hashtagsFile>>

\* 'Mau ganti total caption lama?'
WizCaptionsReplaceAll ==
  /\ At("c_replace")
  /\ \E replaceAll \in BOOLEAN :
       call' = [call EXCEPT !.arg =
         IF replaceAll THEN [@ EXCEPT !.captions = <<>>, !.wpc = "c_append"]
         ELSE IF Len(@.captions) > 0 THEN [@ EXCEPT !.wpc = "c_reset"]
         ELSE [@ EXCEPT !.wpc = "c_append"]]
  /\ UNCHANGED <<wizardFrame, captionsFile, hashtagsFile>>

\* 'Mau reset status used caption lama jadi fresh lagi?'
WizCaptionsResetUsage ==
  /\ At("c_reset")
  /\ \E resetUsage \in BOOLEAN :
       call' = [call EXCEPT !.arg =
         [@ EXCEPT !.captions = IF resetUsage
                                  THEN [i \in 1..Len(@) |->
                                          [@[i] EXCEPT !.used = FALSE, !.used_at = <<>>]]
                                  ELSE @,
                   !.wpc = "c_manage"]]
  /\ UNCHANGED <<wizardFrame, captionsFile, hashtagsFile>>

\* 'Mau edit/hapus caption lama by nomor dulu?' and the entry of
\* manageCaptions, which reindexes.
WizCaptionsManageOld ==
  /\ At("c_manage")
  /\ \E manageOld \in BOOLEAN :
       call' = [call EXCEPT !.arg =
         IF manageOld THEN [@ EXCEPT !.captions = ReindexCaptions(@), !.wpc = "c_menu"]
         ELSE [@ EXCEPT !.wpc = "c_append"]]
  /\ UNCHANGED <<wizardFrame, captionsFile, hashtagsFile>>

\* Menu choice 1 of manageCaptions: a blank replacement cancels the edit.
WizCaptionsEdit ==
  /\ At("c_menu")
  /\ wiz.ops < MaxOps
  /\ \E index \in 1..Len(wiz.captions), typedText \in wiz.typed :
       \E replacement \in {Trim(typedText)} :
         call' = [call EXCEPT !.arg.ops = @ + 1,
                              !.arg.captions =
                                IF replacement = <<>> THEN @
                                ELSE [@ EXCEPT ![index].text = replacement]]
  /\ UNCHANGED <<wizardFrame, captionsFile, hashtagsFile>>

\* Menu choice 2 of manageCaptions: splice and reindex; the loop ends when no
\* caption is left.
WizCaptionsDelete ==
  /\ At("c_menu")
  /\ wiz.ops < MaxOps
  /\ \E index \in 1..Len(wiz.captions) :
       \E captions \in {ReindexCaptions(RemoveAt(wiz.captions, index))} :
         call' = [call EXCEPT !.arg.ops = @ + 1,
                              !.arg.captions = captions,
                              !.arg.wpc = IF Len(captions) > 0 THEN "c_menu"
                                          ELSE "c_append"]
  /\ UNCHANGED <<wizardFrame, captionsFile, hashtagsFile>>

\* Menu choice 3 of manageCaptions.
WizCaptionsContinue ==
  /\ At("c_menu")
  /\ call' = [call EXCEPT !.arg.wpc = "c_append"]
  /\ UNCHANGED <<wizardFrame, captionsFile, hashtagsFile>>

\* nextId of handleCaptions: the largest id plus one.
NextId(captions) ==
  IF captions = <<>> THEN 1
  ELSE (CHOOSE m \in {captions[i].id : i \in 1..Len(captions)} :
          \A i \in 1..Len(captions) : captions[i].id <= m) + 1

\* A caption typed at 'Caption #n: '.
WizCaptionsAppend ==
  /\ At("c_append")
  /\ wiz.ops < MaxOps
  /\ \E typedText \in wiz.typed :
       /\ Trim(typedText) # <<>>
       /\ call' = [call EXCEPT !.arg.ops = @ + 1,
                               !.arg.captions =
                                 Append(@, [id |-> NextId(@), text |-> Trim(typedText),
                                            used |-> FALSE, used_at |-> <<>>])]
  /\ UNCHANGED <<wizardFrame, captionsFile, hashtagsFile>>

\* The empty answer at 'Caption #n: ': sort, reindex and writeJson, unless
\* the bank is empty.  A failed fs.writeFile leaves the file as it was or
\* truncated, and ends the wizard.
WizCaptionsFinish ==
  /\ At("c_append")
  /\ \E captions \in {ReindexCaptions(SortById(wiz.captions))} :
       IF Len(captions) = 0
         THEN /\ call' = [call EXCEPT !.arg = AfterCaptions([@ EXCEPT !.captions = captions])]
              /\ UNCHANGED captionsFile
         ELSE \E ok \in BOOLEAN :
                IF ok
                  THEN /\ captionsFile' = CaptionsToJson(captions)
                       /\ call' = [call EXCEPT !.arg =
                            AfterCaptions([@ EXCEPT !.captions = captions,
                                                    !.captionWrites = @ + 1])]
                  ELSE /\ captionsFile' \in {captionsFile, JsonInvalid}
                       /\ call' = [call EXCEPT !.arg =
                            WizardFailed([@ EXCEPT !.captions = captions,
                                                   !.captionWrites = @ + 1])]
  /\ UNCHANGED <<wizardFrame, hashtagsFile>>

\* readJson(hashtagsPath, []) and normalizeHashtags of handleHashtags.
WizReadHashtags ==
  /\ At("readhashtags")
  /\ call' = [call EXCEPT !.arg =
       IF hashtagsFile.kind = "invalid" THEN WizardFailed(@)
       ELSE [@ EXCEPT !.hashtags = WizardNormalizeHashtags(hashtagsFile),
                      !.wpc = "h_replace"]]
  /\ UNCHANGED <<wizardFrame, captionsFile, hashtagsFile>>

\* 'Mau ganti total hashtag lama?'
WizHashtagsReplaceAll ==
  /\ At("h_replace")
  /\ \E replaceAll \in BOOLEAN :
       call' = [call EXCEPT !.arg =
         IF replaceAll THEN [@ EXCEPT !.hashtags = <<>>, !.wpc = "h_append"]
         ELSE IF Len(@.hashtags) > 0 THEN [@ EXCEPT !.wpc = "h_manage"]
         ELSE [@ EXCEPT !.wpc = "h_append"]]
  /\ UNCHANGED <<wizardFrame, captionsFile, hashtagsFile>>

\* 'Mau edit/hapus hashtag lama by nomor dulu?'
WizHashtagsManageOld ==
  /\ At("h_manage")
  /\ \E manageOld \in BOOLEAN :
       call' = [call EXCEPT !.arg.wpc = IF manageOld THEN "h_menu" ELSE "h_append"]
  /\ UNCHANGED <<wizardFrame, captionsFile, hashtagsFile>>

\* hashtags.findIndex(...) >= 0 of manageHashtags: another tag equals the
\* replacement when both are lower-cased.
DuplicateOfOther(hashtags, index, replacement) ==
  \E tagIndex \in 1..Len(hashtags) :
    /\ tagIndex # index
    /\ ToLowerCase(hashtags[tagIndex]) = ToLowerCase(replacement)

\* manageHashtags whose edit does not look for a duplicate.
WizHashtagsEditUnchecked ==
  /\ At("h_menu")
  /\ wiz.ops < MaxOps
  /\ \E index \in 1..Len(wiz.hashtags), typedTag \in wiz.typed :
       \E replacement \in {WizardNormalizeHashtag(typedTag)} :
         call' = [call EXCEPT !.arg.ops = @ + 1,
                              !.arg.hashtags =
                                IF replacement = <<>> THEN @
                                ELSE [@ EXCEPT ![index] = replacement]]
  /\ UNCHANGED <<wizardFrame, captionsFile, hashtagsFile>>

\* Menu choice 1 of manageHashtags: an empty replacement cancels the edit, a
\* duplicate of another tag is refused.
WizHashtagsEdit ==
  /\ At("h_menu")
  /\ wiz.ops < MaxOps
  /\ \E index \in 1..Len(wiz.hashtags), typedTag \in wiz.typed :
       \E replacement \in {WizardNormalizeHashtag(typedTag)} :
         call' = [call EXCEPT !.arg.ops = @ + 1,
                              !.arg.hashtags =
                                IF replacement = <<>> THEN @
                                ELSE IF DuplicateOfOther(@, index, replacement) THEN @
                                ELSE [@ EXCEPT ![index] = replacement]]
  /\ UNCHANGED <<wizardFrame, captionsFile, hashtagsFile>>

\* Menu choice 2 of manageHashtags: splice; the loop ends when no tag is left.
WizHashtagsDelete ==
  /\ At("h_menu")
  /\ wiz.ops < MaxOps
  /\ \E index \in 1..Len(wiz.hashtags) :
       \E hashtags \in {RemoveAt(wiz.hashtags, index)} :
         call' = [call EXCEPT !.arg.ops = @ + 1,
                              !.arg.hashtags = hashtags,
                              !.arg.wpc = IF Len(hashtags) > 0 THEN "h_menu"
                                          ELSE "h_append"]
  /\ UNCHANGED <<wizardFrame, captionsFile, hashtagsFile>>

\* Menu choice 3 of manageHashtags.
WizHashtagsContinue ==
  /\ At("h_menu")
  /\ call' = [call EXCEPT !.arg.wpc = "h_append"]
  /\ UNCHANGED <<wizardFrame, captionsFile, hashtagsFile>>

\* A tag typed at 'Hashtag #n: ': skipped when its lower-cased key was seen.
WizHashtagsAppend ==
  /\ At("h_append")
  /\ wiz.ops < MaxOps
  /\ \E typedTag \in wiz.typed :
       \E normalized \in {WizardNormalizeHashtag(typedTag)} :
         /\ normalized # <<>>
         /\ call' = [call EXCEPT !.arg.ops = @ + 1,
                                 !.arg.hashtags =
                                   IF ToLowerCase(normalized) \in
                                        {ToLowerCase(@[i]) : i \in 1..Len(@)}
                                     THEN @
                                     ELSE Append(@, normalized)]
  /\ UNCHANGED <<wizardFrame, captionsFile, hashtagsFile>>

\* The empty answer at 'Hashtag #n: ': writeJson unless the bank is empty.
WizHashtagsFinish ==
  /\ At("h_append")
  /\ IF Len(wiz.hashtags) = 0
       THEN /\ call' = [call EXCEPT !.arg.wpc = "closed"]
            /\ UNCHANGED hashtagsFile
       ELSE \E ok \in BOOLEAN :
              IF ok
                THEN /\ hashtagsFile' = HashtagsToJson(wiz.hashtags)
                     /\ call' = [call EXCEPT !.arg.wpc = "closed",
                                             !.arg.hashtagWrites = @ + 1]
                ELSE /\ hashtagsFile' \in {hashtagsFile, JsonInvalid}
                     /\ call' = [call EXCEPT !.arg =
                          WizardFailed([@ EXCEPT !.hashtagWrites = @ + 1])]
  /\ UNCHANGED <<wizardFrame, captionsFile>>

\* One step of the wizard session.
WizardStep ==
  \/ WizChooseMode
  \/ WizReadCaptions
  \/ WizCaptionsReplaceAll
  \/ WizCaptionsResetUsage
  \/ WizCaptionsManageOld
  \/ WizCaptionsEdit
  \/ WizCaptionsDelete
  \/ WizCaptionsContinue
  \/ WizCaptionsAppend
  \/ WizCaptionsFinish
  \/ WizReadHashtags
  \/ WizHashtagsReplaceAll
  \/ WizHashtagsManageOld
  \/ WizHashtagsEdit
  \/ WizHashtagsDelete
  \/ WizHashtagsContinue
  \/ WizHashtagsAppend
  \/ WizHashtagsFinish

\* ------------------------------------------- functions applied on their own
\* The engine at rest, while one function is applied to chosen arguments.
EngineIdle ==
  /\ lockFile = NoLock
  /\ overlap = FALSE
  /\ runs = 0
  /\ xdev = FALSE
  /\ now = 0
  /\ src = {}
  /\ jobs = << >>
  /\ captionsFile = JsonArray(<<>>)
  /\ hashtagsFile = JsonArray(<<>>)
  /\ pc = [p \in Procs |-> "idle"]
  /\ loc = [p \in Procs |-> InitLoc]
  /\ outcome = [p \in Procs |-> "none"]

engine ==
  <<lockFile, overlap, runs, xdev, now, src, jobs, captionsFile, hashtagsFile,
    pc, loc, outcome>>

\* chooseComposition(imageCount, videoCount) for every pair of counts.
InitPlanner ==
  /\ EngineIdle
  /\ call \in {[fn |-> "chooseComposition", arg |-> <<i, v>>, res |-> <<>>, hist |-> <<>>]
                 : i \in 0..MaxCount, v \in 0..MaxCount}

PlannerCall ==
  /\ call.fn = "chooseComposition"
  /\ call.res = <<>>
  /\ \E composition \in ChooseComposition(call.arg[1], call.arg[2]) :
       call' = [call EXCEPT !.res = <<composition>>]
  /\ UNCHANGED engine

SpecPlanner == InitPlanner /\ [][PlannerCall]_vars

\* The text of the i-th caption of a rotation bank.
CaptionText(i) == <<"c">> \o Digits(i)

\* A bank of n entries, none used.
FreshBank(n) ==
  [i \in 1..n |-> [id |-> i, text |-> CaptionText(i), used |-> FALSE, used_at |-> <<>>]]

\* pickCaption applied again and again, each time to the bank the previous
\* call returned; hist lists the captions chosen so far.
InitRotation ==
  /\ EngineIdle
  /\ call \in {[fn |-> "pickCaption", arg |-> FreshBank(n), res |-> <<>>, hist |-> <<>>]
                 : n \in 1..MaxBank}

RotationPick ==
  /\ call.fn = "pickCaption"
  /\ Len(call.hist) < 2 * Len(call.arg) + 1
  /\ ~PickCaptionThrows(call.arg)
  /\ \E t \in Times : \E picked \in PickCaption(call.arg, t) :
       call' = [call EXCEPT !.arg = picked.nextCaptions,
                            !.res = <<picked.captionText>>,
                            !.hist = Append(@, picked.captionText)]
  /\ UNCHANGED engine

SpecRotation == InitRotation /\ [][RotationPick]_vars

\* uniqueDirectoryPath called by every process at once, each with the folder
\* name of some minute, over an output_jobs that holds none, one or two
\* folders of minute 0.
EmptyDir == [files |-> {}, caption |-> <<>>]

InitialJobs ==
  {<< >>,
   ExistingJobs,
   (DirCandidate(FormatWibJobFolderName(0), 1) :> EmptyDir) @@ ExistingJobs}

InitDirs ==
  /\ lockFile = NoLock
  /\ overlap = TRUE
  /\ runs = NumRuns
  /\ xdev = FALSE
  /\ now = MaxTime
  /\ src = DefaultMedia
  /\ jobs \in InitialJobs
  /\ captionsFile = DefaultCaptions
  /\ hashtagsFile = DefaultHashtags
  /\ pc = [p \in Procs |-> "mkdir"]
  /\ \E t \in [Procs -> Times] :
       loc = [p \in Procs |->
                [InitLoc EXCEPT !.jobFolderName = FormatWibJobFolderName(t[p])]]
  /\ outcome = [p \in Procs |-> "none"]
  /\ call = [fn |-> "uniqueDirectoryPath", arg |-> <<>>, res |-> <<>>, hist |-> <<>>]

NextDirs == \E p \in Procs : Mkdir(p)

SpecDirs == InitDirs /\ [][NextDirs]_vars

\* pickHashtags(hashtags) for the normalized lists #1 .. #n.
TagBank(n) == [i \in 1..n |-> <<"#">> \o Digits(i)]

InitPicker ==
  /\ EngineIdle
  /\ call \in {[fn |-> "pickHashtags", arg |-> TagBank(n), res |-> <<>>, hist |-> <<>>]
                 : n \in 0..MaxTags}

PickerCall ==
  /\ call.fn = "pickHashtags"
  /\ call.res = <<>>
  /\ \E selectedHashtags \in PickHashtags(call.arg) :
       call' = [call EXCEPT !.res = <<selectedHashtags>>]
  /\ UNCHANGED engine

SpecPicker == InitPicker /\ [][PickerCall]_vars

\* normalizeHashtags of the engine and of the wizard, applied to raw arrays
\* of at most MaxRaw entries and to a value that is not an array.
RawHashtagEntries ==
  {HashtagString(TagX),
   HashtagString(<<"#", "X">>),
   HashtagString(<<"x">>),
   HashtagString(<<" ", "x", " ", "y", " ">>),
   HashtagString(<<"#", "x", " ", "y">>),
   HashtagString(Blank),
   HashtagObject(<<>>, <<<<"X">>>>, <<>>),
   HashtagOther}

RawHashtagBanks ==
  {JsonNonArray} \cup
  UNION {{JsonArray(items) : items \in [1..n -> RawHashtagEntries]} : n \in 0..MaxRaw}

InitNormalizer ==
  /\ EngineIdle
  /\ call \in {[fn |-> "normalizeHashtags", arg |-> raw, res |-> <<>>, hist |-> <<>>]
                 : raw \in RawHashtagBanks}

\* res is <<[engine, wizard]>>; engine is <<list>>, or <<>> when it throws.
NormalizerCall ==
  /\ call.fn = "normalizeHashtags"
  /\ call.res = <<>>
  /\ call' = [call EXCEPT !.res =
       <<[engine |-> IF EngineNormalizeHashtagsThrows(call.arg) THEN <<>>
                     ELSE <<EngineNormalizeHashtags(call.arg)>>,
          wizard |-> WizardNormalizeHashtags(call.arg)]>>]
  /\ UNCHANGED engine

SpecNormalizer == InitNormalizer /\ [][NormalizerCall]_vars

\* normalizeCaptionEntries of the engine and normalizeCaptions of the wizard,
\* applied to raw arrays of at most MaxRaw entries and to a value that is not
\* an array, and then applied again to what they returned.
RawCaptionEntries ==
  {CaptionString(<<" ">> \o Hi),
   CaptionString(Blank),
   CaptionObject(<<Hi>>, <<>>, <<>>, FALSE, <<>>),
   CaptionObject(<<>>, <<Yo \o <<" ">>>>, <<2>>, TRUE, <<0>>),
   CaptionObject(<<Yo>>, <<>>, <<2>>, FALSE, <<>>),
   CaptionObject(<<Hi>>, <<>>, <<0>>, TRUE, <<>>),
   CaptionObject(<<Hi>>, <<>>, <<5>>, FALSE, <<>>),
   CaptionObject(<<Blank>>, <<>>, <<1>>, FALSE, <<>>),
   CaptionOther}

RawCaptionBanks ==
  {JsonNonArray} \cup
  UNION {{JsonArray(items) : items \in [1..n -> RawCaptionEntries]} : n \in 0..MaxRaw}

\* What the two normalizers make of raw: engine is <<list>>, or <<>> when
\* normalizeCaptionEntries throws; wizard is the list.
BothNormalized(raw) ==
  [engine |-> IF NormalizeCaptionEntriesThrows(raw) THEN <<>>
              ELSE <<NormalizeCaptionEntries(raw)>>,
   wizard |-> WizardNormalizeCaptions(raw)]

InitCaptionNormalizer ==
  /\ EngineIdle
  /\ call \in {[fn |-> "normalizeCaptions", arg |-> raw, res |-> <<>>, hist |-> <<>>]
                 : raw \in RawCaptionBanks}

\* res is <<BothNormalized(raw)>>.
CaptionNormalizerCall ==
  /\ call.fn = "normalizeCaptions"
  /\ call.res = <<>>
  /\ call' = [call EXCEPT !.res = <<BothNormalized(call.arg)>>]
  /\ UNCHANGED engine

\* hist is <<[engine, wizard]>>: each normalizer applied to its own result,
\* written to captions.json and read back; engine is <<>> when the first
\* application threw.
CaptionNormalizerAgain ==
  /\ call.fn = "normalizeCaptions"
  /\ call.res # <<>>
  /\ call.hist = <<>>
  /\ call' = [call EXCEPT !.hist =
       <<[engine |-> IF call.res[1].engine = <<>> THEN <<>>
                     ELSE <<BothNormalized(CaptionsToJson(call.res[1].engine[1])).engine>>,
          wizard |-> BothNormalized(CaptionsToJson(call.res[1].wizard)).wizard]>>]
  /\ UNCHANGED engine

SpecCaptionNormalizer ==
  InitCaptionNormalizer /\ [][CaptionNormalizerCall \/ CaptionNormalizerAgain]_vars

\* pickCaption(captions) applied once to normalized banks of at most MaxBank
\* entries with any usage state and with ids that are dense or not.  arg is
\* the caller's list, which the writes of pickCaption never reach: they go to
\* the copies that map and spread made.  hist keeps the list as it was passed.
PickBankEntries(i) ==
  {[id |-> id, text |-> CaptionText(i), used |-> used, used_at |-> used_at]
     : id \in {i, MaxBank + 2}, used \in BOOLEAN, used_at \in {<<>>, <<0>>}}

PickBanks ==
  UNION {{bank \in [1..n -> UNION {PickBankEntries(i) : i \in 1..n}] :
            \A i \in 1..n : bank[i] \in PickBankEntries(i)}
         : n \in 0..MaxBank}

InitPick ==
  /\ EngineIdle
  /\ call \in {[fn |-> "pickCaption once", arg |-> bank, res |-> <<>>, hist |-> <<bank>>]
                 : bank \in PickBanks}

\* res is <<[threw, captionText, nextCaptions]>>.
PickCall ==
  /\ call.fn = "pickCaption once"
  /\ call.res = <<>>
  /\ IF PickCaptionThrows(call.arg)
       THEN call' = [call EXCEPT !.res =
              <<[threw |-> TRUE, captionText |-> <<>>, nextCaptions |-> <<>>]>>]
       ELSE \E t \in Times : \E picked \in PickCaption(call.arg, t) :
              call' = [call EXCEPT !.res =
                <<[threw |-> FALSE, captionText |-> picked.captionText,
                   nextCaptions |-> picked.nextCaptions]>>]
  /\ UNCHANGED engine

SpecPick == InitPick /\ [][PickCall]_vars

\* pickRandomItems(items, count) applied to the lists 1 .. n, n <= MaxCount,
\* with every count from -1 to n + 1.  arg is <<items, count>>, items being
\* the caller's list: the splices of pickRandomItems go to the copy `pool`.
\* hist keeps the list as it was passed.
ItemList(n) == [i \in 1..n |-> i]

InitSelector ==
  /\ EngineIdle
  /\ call \in UNION {{[fn |-> "pickRandomItems", arg |-> <<ItemList(n), count>>,
                       res |-> <<>>, hist |-> <<ItemList(n)>>]
                        : count \in (0 - 1)..(n + 1)}
                     : n \in 0..MaxCount}

\* res is <<[threw, selected]>>.
SelectorCall ==
  /\ call.fn = "pickRandomItems"
  /\ call.res = <<>>
  /\ IF PickRandomItemsThrows(call.arg[1], call.arg[2])
       THEN call' = [call EXCEPT !.res = <<[threw |-> TRUE, selected |-> <<>>]>>]
       ELSE \E selected \in PickRandomItems(call.arg[1], call.arg[2]) :
              call' = [call EXCEPT !.res = <<[threw |-> FALSE, selected |-> selected]>>]
  /\ UNCHANGED engine

SpecSelector == InitSelector /\ [][SelectorCall]_vars

\* Runs that follow one another over a stock of exactly one batch, on one
\* device or on two: moveFileSafe, its failures and kills, and the run that
\* comes after them.
MoveStock == {1, 2, 5, 6}

InitMove ==
  /\ \E xd \in BOOLEAN :
       /\ lockFile = NoLock
       /\ overlap = FALSE
       /\ runs = NumRuns
       /\ xdev = xd
       /\ src = MoveStock
       /\ captionsFile = DefaultCaptions
       /\ hashtagsFile = DefaultHashtags
       /\ jobs = << >>
  /\ now = 0
  /\ pc = [p \in Procs |-> "idle"]
  /\ loc = [p \in Procs |-> InitLoc]
  /\ outcome = [p \in Procs |-> "none"]
  /\ call = NoCall

SpecMove == InitMove /\ [][Next]_vars

\* One wizard session with no engine run, over every stored hashtag bank of
\* at most MaxRaw entries and a few stored caption banks.  The operator
\* types a tag with inner and outer spaces, one with '#' in another case,
\* a bare word, or blanks.
TypedTexts ==
  {<<" ", "x", " ", "y", " ">>, <<"#", "X">>, <<"z">>, Blank}

InitWizardAlone ==
  /\ lockFile = NoLock
  /\ overlap = FALSE
  /\ runs = 0
  /\ xdev = FALSE
  /\ now = 0
  /\ src = {}
  /\ jobs = << >>
  /\ \/ /\ captionsFile = DefaultCaptions
        /\ hashtagsFile \in RawHashtagBanks \cup {JsonInvalid}
     \/ /\ captionsFile \in CaptionFiles
        /\ hashtagsFile = DefaultHashtags
  /\ pc = [p \in Procs |-> "idle"]
  /\ loc = [p \in Procs |-> InitLoc]
  /\ outcome = [p \in Procs |-> "none"]
  /\ call = WizardCall(TypedTexts)

SpecWizardAlone == InitWizardAlone /\ [][WizardStep]_vars

\* One engine run and one wizard session side by side: the run has been
\* started, on one device, with no lock file and a stock of one batch or of
\* less; the stored hashtag bank is normalized or not.  The wizard takes no
\* part in the lock protocol, so every interleaving of their steps happens.
UnprefixedHashtags == JsonArray(<<HashtagString(<<"x">>), HashtagString(TagY)>>)

InitWizardAndEngine ==
  /\ lockFile = NoLock
  /\ overlap = FALSE
  /\ runs = 1
  /\ xdev = FALSE
  /\ now = 0
  /\ src \in {DefaultMedia, SmallMedia}
  /\ jobs = << >>
  /\ captionsFile = DefaultCaptions
  /\ hashtagsFile \in {DefaultHashtags, UnprefixedHashtags}
  /\ pc = [p \in Procs |-> IF p = 1 THEN "acquire" ELSE "idle"]
  /\ loc = [p \in Procs |-> InitLoc]
  /\ outcome = [p \in Procs |-> "none"]
  /\ call = WizardCall({<<"z">>})

\* A step of the run on one device with nobody else at the lock.
EngineStep(p) ==
  \/ AcqOpen(p)
  \/ AcqWrite(p)
  \/ Scan(p)
  \/ ReadCaptions(p)
  \/ ReadHashtags(p)
  \/ Mkdir(p)
  \/ Access(p)
  \/ Rename(p)
  \/ WriteCaptionFile(p)
  \/ WriteBank(p)
  \/ Release(p)

NextWizardAndEngine ==
  \/ WizardStep
  \/ \E p \in Procs : EngineStep(p)

SpecWizardAndEngine == InitWizardAndEngine /\ [][NextWizardAndEngine]_vars

\* ------------------------------------------------------------------ claims
\* What the run of p has written outside the lock file: nothing.
NoDataWrites(p) ==
  /\ loc[p].mkdirs = 0
  /\ loc[p].fileOps = 0
  /\ loc[p].moved = 0
  /\ loc[p].captionWrites = 0
  /\ loc[p].bankWrites = 0

\* The process with this pid exists, whoever owns it.
PidAlive(pid) == pid > 0 /\ Kill0(pid) # "ESRCH"

\* The lock file holds the pid of a process that exists.
LiveRecord ==
  /\ lockFile # NoLock
  /\ lockFile[1].kind = "pid"
  /\ PidAlive(lockFile[1].pid)

\* Process p takes a step of its own, other than being killed.
Stepped(p) == pc'[p] # pc[p] /\ pc'[p] # "crashed"

\* C1: under every interleaving of the lock protocol's steps, no two
\* processes are inside the locked section (between their own successful
\* acquireLock and their own releaseLock) at the same time.
C1_MutualExclusion ==
  \A p, q \in Procs : (p # q /\ InLocked(p)) => ~InLocked(q)

\* C2: while the lock file names a holder that is alive (EPERM counts as
\* alive), every step of acquireLock leaves the lock file as it is, and the
\* probe of such a holder ends acquireLock with false: the run is skipped.
C2_LiveHolderDenies ==
  [][\A p \in Procs :
       /\ (Stepped(p) /\ pc[p] = "acquire" /\ LiveRecord)
            => (pc'[p] = "read" /\ lockFile' = lockFile)
       /\ (Stepped(p) /\ pc[p] = "read" /\ LiveRecord)
            => /\ pc'[p] = "probe"
               /\ loc'[p].activePid = <<lockFile[1].pid>>
               /\ lockFile' = lockFile
       /\ (Stepped(p) /\ pc[p] = "probe" /\ loc[p].activePid # <<>>
             /\ PidAlive(loc[p].activePid[1]))
            => /\ pc'[p] = "done"
               /\ outcome'[p] = "skip_locked"
               /\ lockFile' = lockFile]_vars

\* A second acquireLock was denied by a holder that is inside its run.
C2_Witness ==
  \E p, q \in Procs :
    /\ p # q
    /\ outcome[p] = "skip_locked"
    /\ loc[p].activePid = <<q>>
    /\ InLocked(q)

\* C3: acquireLock never returns false for a holder that is not alive: a
\* probe of a terminated holder, or of a record no pid can be read from, goes
\* on to remove the record, and only the probe of a live holder denies the
\* lock.  When runs do not overlap the reclaim is never disturbed: no
\* acquireLock throws, and the lock file names the process inside its run.
C3_StaleLockReclaimed ==
  /\ [][\A p \in Procs :
          /\ (Stepped(p) /\ pc[p] = "probe" /\
                (loc[p].activePid = <<>> \/ ~PidAlive(loc[p].activePid[1])))
               => pc'[p] = "rm"
          /\ (pc[p] = "rm" /\ Stepped(p))
               => (lockFile' = NoLock /\ pc'[p] = "retry")
          /\ (pc[p] # "done" /\ pc'[p] = "done" /\ outcome'[p] = "skip_locked")
               => (pc[p] = "probe" /\ loc[p].activePid # <<>>
                     /\ PidAlive(loc[p].activePid[1]))]_vars
  /\ [](~overlap =>
          \A p \in Procs :
            /\ outcome[p] = "skip_locked" => loc[p].activePid = <<ForeignPid>>
            /\ outcome[p] # "acquire_threw"
            /\ InLocked(p) => lockFile = LockRec(p, "pid", p))

\* A run was killed while it held the lock, and a later run holds it now.
C3_Witness ==
  /\ ~overlap
  /\ \E p, q \in Procs :
       /\ pc[q] = "crashed"
       /\ loc[p].activePid = <<q>>
       /\ InLocked(p)
       /\ loc[p].opens = 2
       /\ lockFile = LockRec(p, "pid", p)

\* C4: under every interleaving acquireLock ends after at most two creation
\* attempts with true or false, never with an exception.
C4_AcquireReturnsBoolean ==
  \A p \in Procs : loc[p].opens <= 2 /\ outcome[p] # "acquire_threw"

C7_BankWrittenLast ==
  \A p \in Procs :
    /\ loc[p].bankWrites <= 1
    /\ loc[p].bankWrites = 1
         => (loc[p].moved = BatchSize /\ loc[p].captionWrites = 1)
    /\ (pc[p] = "release" /\ loc[p].bankWrites = 1)
         => /\ jobs[loc[p].jobDir[1]].caption # <<>>
            /\ \A f \in Range(loc[p].selectedMedia) :
                 /\ f \notin src
                 /\ \E e \in jobs[loc[p].jobDir[1]].files : e.file = f
    /\ (~overlap /\ InLocked(p) /\ loc[p].captionsRaw # <<>> /\ loc[p].bankWrites = 0)
         => captionsFile = loc[p].captionsRaw[1]

\* A run has written the bank and is about to release the lock.
C7_Witness ==
  \E p \in Procs :
    /\ pc[p] = "release"
    /\ loc[p].bankWrites = 1
    /\ loc[p].result = "success"

\* A caption entry without usable text: blank once trimmed, or not text.
NoUsableText(entry) ==
  CASE entry.type = "string" -> Trim(entry.str) = <<>>
    [] entry.type = "object" -> Trim(TextCandidate(entry)) = <<>>
    [] OTHER -> TRUE

MalformedCaptions(raw) ==
  \/ raw.kind # "array"
  \/ \E i \in 1..Len(raw.items) : NoUsableText(raw.items[i])

MalformedHashtags(raw) == raw.kind # "array"

\* C8: a run that has read a malformed caption bank or hashtag bank is
\* aborting with a failure and has created, moved and written nothing.
C8_MalformedBankAborts ==
  \A p \in Procs :
    (InLocked(p) /\
       \/ (loc[p].captionsRaw # <<>> /\ MalformedCaptions(loc[p].captionsRaw[1]))
       \/ (loc[p].hashtagsRaw # <<>> /\ MalformedHashtags(loc[p].hashtagsRaw[1])))
      => (pc[p] = "release" /\ loc[p].result = "error" /\ NoDataWrites(p))

\* C9: counting picks from a bank of N unused entries, no caption is chosen
\* twice among picks 1..N, nor among picks N+1..2N; after N picks every
\* entry is used; and a pick makes a used entry unused only when its input
\* has no unused entry.
C9_RotationExhaustive ==
  /\ [](call.fn = "pickCaption" =>
          LET n == Len(call.arg) IN
          /\ \A a, b \in 1..Len(call.hist) :
               (a < b /\ (a - 1) \div n = (b - 1) \div n) => call.hist[a] # call.hist[b]
          /\ Len(call.hist) = n => \A i \in 1..n : call.arg[i].used
          /\ Len(call.hist) \in 1..n
               => Cardinality({i \in 1..n : call.arg[i].used}) = Len(call.hist))
  /\ [][(call.fn = "pickCaption" /\
           \E i \in 1..Len(call.arg) : call.arg[i].used /\ ~call'.arg[i].used)
          => \A i \in 1..Len(call.arg) : call.arg[i].used]_vars

\* The pick after the N-th one: the bank was reset and one entry is used.
C9_Witness ==
  /\ call.fn = "pickCaption"
  /\ Len(call.arg) = MaxBank
  /\ Len(call.hist) = MaxBank + 1
  /\ Cardinality({i \in 1..Len(call.arg) : call.arg[i].used}) = 1

\* The image counts k of the mixed splits that the stock allows.
FeasibleMixes(imageCount, videoCount) ==
  {k \in 1..3 : k <= imageCount /\ BatchSize - k <= videoCount}

\* C10: when some mixed split is feasible, every result of the planner is a
\* feasible mixed split and every feasible mixed split is a result.
C10_MixPreferred ==
  call.fn = "chooseComposition" =>
    LET imageCount == call.arg[1]
        videoCount == call.arg[2]
        feasible == FeasibleMixes(imageCount, videoCount)
    IN feasible # {} =>
         /\ \A k \in feasible :
              Composition(k, BatchSize - k) \in ChooseComposition(imageCount, videoCount)
         /\ call.res # <<>> =>
              \E k \in feasible : call.res[1] = Composition(k, BatchSize - k)

\* The planner was applied to (1, 5) and returned one image, three videos.
C10_Witness ==
  /\ call.fn = "chooseComposition"
  /\ call.arg = <<1, 5>>
  /\ call.res = <<Composition(1, 3)>>

\* C11: with no videos and at least four images the planner returns four
\* images and nothing else; with no images and at least four videos, four
\* videos and nothing else.
C11_SingleTypeFallback ==
  call.fn = "chooseComposition" =>
    LET imageCount == call.arg[1]
        videoCount == call.arg[2]
    IN /\ (videoCount = 0 /\ imageCount >= BatchSize)
            => /\ ChooseComposition(imageCount, videoCount) = {Composition(BatchSize, 0)}
               /\ call.res # <<>> => call.res[1] = Composition(BatchSize, 0)
       /\ (imageCount = 0 /\ videoCount >= BatchSize)
            => /\ ChooseComposition(imageCount, videoCount) = {Composition(0, BatchSize)}
               /\ call.res # <<>> => call.res[1] = Composition(0, BatchSize)

\* The planner was applied to (5, 0) and returned four images.
C11_Witness ==
  /\ call.fn = "chooseComposition"
  /\ call.arg = <<5, 0>>
  /\ call.res = <<Composition(BatchSize, 0)>>

\* C12: the planner returns no composition exactly when the total is below
\* four; with a total of four or more every result has counts that sum to
\* four and do not exceed the stock.
C12_NoCompositionIffBelowBatch ==
  call.fn = "chooseComposition" =>
    LET imageCount == call.arg[1]
        videoCount == call.arg[2]
        results == ChooseComposition(imageCount, videoCount)
    IN /\ imageCount + videoCount < BatchSize => results = {NoComposition}
       /\ imageCount + videoCount >= BatchSize =>
            \A c \in results :
              /\ c # NoComposition
              /\ c[1].images + c[1].videos = BatchSize
              /\ c[1].images \in 0..imageCount
              /\ c[1].videos \in 0..videoCount
       /\ call.res # <<>> =>
            /\ call.res[1] \in results
            /\ call.res[1] = NoComposition <=> imageCount + videoCount < BatchSize

\* The planner was applied to (1, 1) and returned no composition.
C12_Witness ==
  /\ call.fn = "chooseComposition"
  /\ call.arg = <<1, 1>>
  /\ call.res = <<NoComposition>>

\* How many files selected before the i-th one have its base name.
EarlierSameBase(selected, i) ==
  Cardinality({j \in 1..(i - 1) :
                 MediaTable[selected[j]].base = MediaTable[selected[i]].base})

ExpectedDirSuffix(k) ==
  IF k = 0 THEN <<>>
  ELSE IF k < 10 THEN <<"_", "0", DigitChar(k)>>
  ELSE <<"_">> \o Digits(k)

\* C14: under every interleaving of the mkdir calls, no two processes hold
\* the same job directory; the directory a process obtains did not exist
\* before the mkdir that returned it; and the process that found the base
\* name and the suffixes _01 .. _(k-1) taken holds the base name with _k in
\* two digits (the bare base name when k = 0).
C14_DirectoryClaimedByCreation ==
  /\ [](\A p, q \in Procs :
          (p # q /\ loc[p].jobDir # <<>> /\ loc[q].jobDir # <<>>)
            => loc[p].jobDir # loc[q].jobDir)
  /\ [](\A p \in Procs :
          loc[p].jobDir # <<>> =>
            /\ loc[p].jobDir[1].name = loc[p].jobFolderName
            /\ loc[p].jobDir[1].suffix = ExpectedDirSuffix(loc[p].dirAttempt)
            /\ \A j \in 0..(loc[p].dirAttempt - 1) :
                 [name |-> loc[p].jobFolderName, suffix |-> ExpectedDirSuffix(j)]
                   \in DOMAIN jobs)
  /\ [][\A p \in Procs :
          (loc[p].jobDir = <<>> /\ loc'[p].jobDir # <<>>)
            => /\ loc'[p].jobDir[1] \notin DOMAIN jobs
               /\ loc'[p].jobDir[1] \in DOMAIN jobs']_vars

\* Two processes asked for the folder of the same minute: one holds the
\* bare name, the other the name with _01.
C14_Witness ==
  \E p, q \in Procs :
    /\ loc[p].jobDir # <<>> /\ loc[q].jobDir # <<>>
    /\ loc[p].jobFolderName = loc[q].jobFolderName
    /\ loc[p].jobDir[1].suffix = <<>>
    /\ loc[q].jobDir[1].suffix = <<"_", "0", "1">>

\* C15: every selection pickHashtags can return has no tag twice, only tags
\* of the list, and a size from min(3, n) to min(5, n) for a list of n tags;
\* every size of that range is returned by some selection; the empty list
\* gives the empty selection.
C15_HashtagPick ==
  call.fn = "pickHashtags" =>
    LET n == Len(call.arg)
        sizes == Min(3, n)..Min(5, n)
        selections == PickHashtags(call.arg)
    IN /\ call.res = <<>> =>
            /\ \A k \in sizes : \E sel \in selections : Len(sel) = k
            /\ n = 0 => selections = {<<>>}
       /\ call.res # <<>> =>
            LET sel == call.res[1]
            IN /\ Len(sel) \in sizes
               /\ Range(sel) \subseteq Range(call.arg)
               /\ \A a, b \in 1..Len(sel) : a # b => sel[a] # sel[b]

\* Five of six tags were selected.
C15_Witness ==
  /\ call.fn = "pickHashtags"
  /\ Len(call.arg) = 6
  /\ call.res # <<>>
  /\ Len(call.res[1]) = 5

\* The text of a raw hashtag entry: its string, or its tag, hashtag or text.
RawHashtagText(entry) ==
  IF entry.type = "string" THEN entry.str
  ELSE IF entry.type = "object"
    THEN (IF entry.tag # <<>> THEN entry.tag[1]
          ELSE IF entry.hashtag # <<>> THEN entry.hashtag[1]
          ELSE IF entry.text # <<>> THEN entry.text[1]
          ELSE <<>>)
  ELSE <<>>

\* The token of a text: its non-space characters, with '#' in front.
HashtagToken(text) ==
  LET compact == SelectSeq(text, LAMBDA c : c # " ")
  IN IF compact = <<>> THEN <<>>
     ELSE IF compact[1] = "#" THEN compact
     ELSE <<"#">> \o compact

\* tags is the normalization of the raw entries `items`: every tag starts
\* with '#' and holds no space, no two tags are equal once lower-cased, and
\* the tags are the tokens of the entries, each lower-cased token
\* represented by its first occurrence, in the order of first occurrence.
NormalizedAsSpecified(items, tags) ==
  LET tokens == [i \in 1..Len(items) |-> HashtagToken(RawHashtagText(items[i]))]
      firsts == {i \in 1..Len(items) :
                   /\ tokens[i] # <<>>
                   /\ \A j \in 1..(i - 1) :
                        ToLowerCase(tokens[j]) # ToLowerCase(tokens[i])}
  IN /\ \A i \in 1..Len(tags) :
          /\ tags[i] # <<>>
          /\ tags[i][1] = "#"
          /\ \A j \in 1..Len(tags[i]) : tags[i][j] # " "
     /\ \A i, j \in 1..Len(tags) :
          i # j => ToLowerCase(tags[i]) # ToLowerCase(tags[j])
     /\ Len(tags) = Cardinality(firsts)
     /\ \A i \in 1..Len(tags) :
          \E f \in firsts :
            /\ tags[i] = tokens[f]
            /\ Cardinality({g \in firsts : g < f}) = i - 1

\* C16: the list the engine's normalizeHashtags returns, and the list the
\* wizard's returns, are '#'-prefixed, free of whitespace, unique without
\* regard to case, and keep the first occurrence in first-occurrence order.
C16_HashtagsNormalized ==
  (call.fn = "normalizeHashtags" /\ call.res # <<>> /\ call.arg.kind = "array") =>
    /\ call.res[1].engine # <<>>
    /\ NormalizedAsSpecified(call.arg.items, call.res[1].engine[1])
    /\ NormalizedAsSpecified(call.arg.items, call.res[1].wizard)

\* C17: when normalizeCaptionEntries succeeds on a raw bank, it succeeds on
\* its own result and returns it unchanged; normalizeCaptions of the wizard
\* returns its own result unchanged.
C17_CaptionNormalizeIdempotent ==
  (call.fn = "normalizeCaptions" /\ call.hist # <<>>) =>
    /\ call.res[1].engine # <<>>
         => call.hist[1].engine = <<call.res[1].engine>>
    /\ call.hist[1].wizard = call.res[1].wizard

\* The stored bank is an array of records whose ids are 1..N in order and
\* whose texts are not blank.
DenseBank(bank) ==
  /\ bank.kind = "array"
  /\ \A i \in 1..Len(bank.items) :
       /\ bank.items[i].type = "object"
       /\ bank.items[i].id = <<i>>
       /\ Trim(TextCandidate(bank.items[i])) # <<>>

\* C18: the caption bank a run has persisted has ids 1..N in ascending
\* order and no entry with blank text, whatever ids the stored bank had.
C18_DenseIds ==
  \A p \in Procs :
    (pc[p] = "release" /\ loc[p].bankWrites = 1 /\ loc[p].result = "success")
      => DenseBank(captionsFile)

\* The media files of a job directory that come from the source root `root`.
FilesFrom(dir, root) == {e \in jobs[dir].files : MediaTable[e.file].root = root}

BenignOutcomes == {"success", "skip_locked", "skip_media"}

\* The line log() prints for an outcome that is not an error.
OutcomeLine(o) ==
  CASE o = "success" -> [stream |-> "stdout", text |-> "Run success"]
    [] o = "skip_locked" ->
         [stream |-> "stdout", text |-> "Run skipped: previous execution is still active."]
    [] o = "skip_media" ->
         [stream |-> "stdout", text |-> "Run skipped: not enough source media."]
    [] OTHER -> [stream |-> "stderr", text |-> "error"]

C23_PickChangesUsageOnly ==
  (call.fn = "pickCaption once" /\ call.res # <<>> /\ ~call.res[1].threw)
    => LET in == call.arg
           out == call.res[1].nextCaptions
           n == Len(in)
           chosen == {k \in 1..n : out[k].used /\ out[k].used_at # <<>>
                                     /\ out[k].text = call.res[1].captionText}
       IN /\ call.arg = call.hist[1]
          /\ Len(out) = n
          /\ \A i \in 1..n : out[i].id = in[i].id /\ out[i].text = in[i].text
          /\ IF \E i \in 1..n : ~in[i].used
               THEN \E k \in chosen :
                      /\ ~in[k].used
                      /\ \A i \in 1..n : i # k => out[i] = in[i]
               ELSE \E k \in chosen :
                      \A i \in 1..n :
                        i # k => (out[i].used = FALSE /\ out[i].used_at = <<>>)

\* pickCaption has reset a bank of several entries that were all used, with
\* used_at set, and has returned it with one entry used.
C23_Witness ==
  /\ call.fn = "pickCaption once"
  /\ call.res # <<>>
  /\ ~call.res[1].threw
  /\ Len(call.arg) = MaxBank
  /\ \A i \in 1..Len(call.arg) : call.arg[i].used /\ call.arg[i].used_at # <<>>
  /\ Cardinality({i \in 1..MaxBank : call.res[1].nextCaptions[i].used}) = 1

\* The pc values of a run after the caption was picked and before the
\* release of the lock.
AfterPickPcs ==
  {"readhashtags", "mkdir", "access", "rename", "copy", "unlink",
   "writecaption", "writebank"}

\* C24: pickCaption on a bank with no entries throws and returns no caption.
\* A run that reads such a bank fails there: it creates no job directory,
\* moves no file, writes neither caption.txt nor captions.json, and ends
\* with an error.
C24_EmptyBankFails ==
  /\ ~NormalizeCaptionEntriesThrows(JsonArray(<<>>))
  /\ PickCaptionThrows(NormalizeCaptionEntries(JsonArray(<<>>)))
  /\ \A t \in Times : PickCaption(NormalizeCaptionEntries(JsonArray(<<>>)), t) = {}
  /\ \A p \in Procs :
       (captionsFile = JsonArray(<<>>) \/ loc[p].captionsRaw = <<JsonArray(<<>>)>>)
         => /\ pc[p] \notin AfterPickPcs
            /\ NoDataWrites(p)
            /\ loc[p].mkdirs = 0 /\ loc[p].moved = 0 /\ loc[p].fileOps = 0
            /\ loc[p].captionWrites = 0 /\ loc[p].bankWrites = 0
            /\ jobs = << >>
            /\ captionsFile = JsonArray(<<>>)
            /\ (pc[p] = "release" /\ loc[p].captionsRaw # <<>>)
                 => loc[p].result = "error"
            /\ outcome[p] \notin {"success", "skip_media", "skip_locked"}

\* A run that read the empty bank, with media for a batch in stock, has ended
\* with an error.
C24_Witness ==
  \E p \in Procs :
    /\ captionsFile = JsonArray(<<>>)
    /\ pc[p] = "done"
    /\ outcome[p] = "error"
    /\ loc[p].exitCode = 1
    /\ src = DefaultMedia

\* C25: pickRandomItems(items, count) with 0 <= count <= |items| returns
\* count elements from count different positions of items and leaves items
\* as it was; before the call every set of count positions is a possible
\* result; with count > |items| it throws and returns nothing.
C25_PickDistinctPositions ==
  call.fn = "pickRandomItems"
    => LET items == call.arg[1]
           count == call.arg[2]
       IN /\ items = call.hist[1]
          /\ (call.res = <<>> /\ 0 <= count /\ count <= Len(items))
               => \A positions \in SUBSET (1..Len(items)) :
                    Cardinality(positions) = count
                      => \E selected \in PickRandomItems(items, count) :
                           Range(selected) = {items[i] : i \in positions}
          /\ (call.res # <<>> /\ 0 <= count /\ count <= Len(items))
               => /\ ~call.res[1].threw
                  /\ Len(call.res[1].selected) = count
                  /\ Cardinality(Range(call.res[1].selected)) = count
                  /\ Range(call.res[1].selected) \subseteq Range(items)
          /\ (call.res # <<>> /\ count > Len(items))
               => (call.res[1].threw /\ call.res[1].selected = <<>>)
          /\ count > Len(items) => PickRandomItems(items, count) = {}

\* Two of four items were picked, the later one first.
C25_Witness ==
  /\ call.fn = "pickRandomItems"
  /\ call.arg = <<ItemList(BatchSize), 2>>
  /\ call.res # <<>>
  /\ call.res[1].selected = <<BatchSize, 1>>

\* C27: the step of a run that executes releaseLock removes no lock file but
\* the one this run created and wrote its own pid to, so it never removes
\* the record of another process that is still running; and only a run whose
\* acquireLock returned true executes it.
C27_ReleaseOwnRecord ==
  [][\A p \in Procs :
       (pc[p] = "release" /\ pc'[p] = "done")
         => /\ loc[p].opens > 0
            /\ lockFile # NoLock
                 => /\ lockFile[1].ino = p
                    /\ ParsePid(lockFile[1]) = <<p>>
                    /\ \A q \in Procs \ {p} :
                         Running(q) => ParsePid(lockFile[1]) # <<q>>]_vars

\* The job directories that hold the media file f.
DirsHolding(f) == {d \in DOMAIN jobs : \E e \in jobs[d].files : e.file = f}

\* C28: at every step of every move, and after a kill between two steps,
\* each media file of the stock is still at its source path or in a job
\* directory (so the source is removed only once the destination exists),
\* and over any sequence of runs no media file is in more than one job
\* directory.
C28_MoveKeepsOneCopy ==
  \A f \in MoveStock :
    /\ f \in src \/ DirsHolding(f) # {}
    /\ Cardinality(DirsHolding(f)) <= 1

\* A tag starts with '#' and holds no whitespace.
WellFormedTag(tag) ==
  /\ Len(tag) >= 1
  /\ Head(tag) = "#"
  /\ \A i \in 1..Len(tag) : ~IsSpace(tag[i])

\* No two tags of the list are equal when lower-cased.
DistinctIgnoringCase(hashtags) ==
  \A i, j \in 1..Len(hashtags) :
    i # j => ToLowerCase(hashtags[i]) # ToLowerCase(hashtags[j])

\* C26: whatever bank is stored and whatever the operator does (replace all,
\* edit by number, delete by number, add tags), the wizard's hashtag list
\* holds only '#'-prefixed tags without whitespace, no two of them equal
\* ignoring case, at every question; so an edit that would duplicate another
\* tag changes nothing.  The list it has written to hashtags.json is that
\* list, and it is not empty.
C26_WizardHashtagsNormalized ==
  call.fn = "wizard"
    => /\ \A i \in 1..Len(wiz.hashtags) : WellFormedTag(wiz.hashtags[i])
       /\ DistinctIgnoringCase(wiz.hashtags)
       /\ wiz.hashtagWrites <= 1
       /\ (wiz.hashtagWrites = 1 /\ wiz.wpc = "closed")
            => /\ Len(wiz.hashtags) > 0
               /\ hashtagsFile = HashtagsToJson(wiz.hashtags)
               /\ WizardNormalizeHashtags(hashtagsFile) = wiz.hashtags

\* The wizard has written a bank of two tags after all its edits and
\* additions; the first is what " x y " normalizes to.
C26_Witness ==
  /\ call.fn = "wizard"
  /\ wiz.wpc = "closed"
  /\ wiz.hashtagWrites = 1
  /\ wiz.ops = MaxOps
  /\ Len(wiz.hashtags) = 2
  /\ wiz.hashtags[1] = <<"#", "x", "y">>

\* C21: no step of an engine run, whatever the run's outcome, changes
\* hashtags.json; the only step that changes it is the wizard's write at the
\* end of handleHashtags.
C21_EngineLeavesHashtagBank ==
  [][/\ (\E p \in Procs : pc'[p] # pc[p] \/ loc'[p] # loc[p])
          => hashtagsFile' = hashtagsFile
     /\ hashtagsFile' # hashtagsFile
          => /\ At("h_append")
             /\ call'.arg.hashtagWrites = wiz.hashtagWrites + 1]_vars

\* An engine run has succeeded with hashtags picked and the wizard has
\* written another hashtag bank.
C21_Witness ==
  /\ outcome[1] = "success"
  /\ wiz.wpc = "closed"
  /\ wiz.hashtagWrites = 1
  /\ hashtagsFile \notin {DefaultHashtags, UnprefixedHashtags}

\* C22: the wizard and an engine run never lose each other's update of
\* captions.json: when the wizard writes the bank, the file still is what
\* the wizard read, and when the run writes the bank, the file still is
\* what the run read.
C22_NoLostBankUpdate ==
  [][/\ (call'.arg.captionWrites # wiz.captionWrites /\ call'.arg.wpc # "failed")
          => captionsFile = wiz.existingRaw[1]
     /\ \A p \in Procs :
          (loc'[p].bankWrites # loc[p].bankWrites /\ loc'[p].result = "success")
            => captionsFile = loc[p].captionsRaw[1]]_vars

====
